---- MODULE Spec2Model ----
(***************************************************************************)
(* Voice diary: the diary consolidation engine.                            *)
(*                                                                         *)
(* The store is the Notion diary database: a growing list of pages, each   *)
(* with a title, a body ("本文"), a tag set ("タグ"), a date ("日付") and  *)
(* the archived flag.  The operations are those of server/routers.ts (the  *)
(* process pipeline: locate, merge or create), of the REST revision of the *)
(* router (saveToNotionDiary and mergeDuplicates) and of server/notion.ts  *)
(* (the REST store adapter).                                               *)
(*                                                                         *)
(* Text is a sequence of one-character strings, so that "contains as a     *)
(* substring" and trim() are computed, not assumed.  A calendar day is the *)
(* day of January 2026 in JST; an instant is a number of hours since       *)
(* 2025-12-31T00:00Z, so that 24*d is d January 00:00 UTC.                 *)
(***************************************************************************)
EXTENDS Integers, Sequences, FiniteSets, TLC

\* ------------------------------------------------------------------ bounds
MaxPages == 3        \* pages ever created in the store
MaxDay == 2          \* resolved dates are 1..MaxDay January 2026 (JST)
MaxRuns == 2         \* mergeDuplicates runs
ResultCap == 2       \* results the store returns for one query request

Days == 1..MaxDay
RecIds == {1, 2}

NL == "\n"
SP == " "
\* bodies a caller or the transcription can supply
Bodies == {<< >>, <<SP>>, <<"a">>, <<"b">>}

\* ------------------------------------------------------------- text helpers
IsWhite(c) == c \in {SP, NL}

RECURSIVE TrimLeft(_)
TrimLeft(s) == IF s # << >> /\ IsWhite(Head(s)) THEN TrimLeft(Tail(s)) ELSE s

RECURSIVE TrimRight(_)
TrimRight(s) ==
  IF s # << >> /\ IsWhite(s[Len(s)]) THEN TrimRight(SubSeq(s, 1, Len(s) - 1)) ELSE s

\* String.prototype.trim
Trim(s) == TrimRight(TrimLeft(s))

\* String.prototype.includes
Contains(s, t) ==
  \E i \in 0..(Len(s) - Len(t)) : SubSeq(s, i + 1, i + Len(t)) = t

\* Array.prototype.join with the separator "\n\n"
RECURSIVE JoinBlank(_)
JoinBlank(parts) ==
  IF parts = << >> THEN << >>
  ELSE IF Len(parts) = 1 THEN parts[1]
  ELSE parts[1] \o <<NL, NL>> \o JoinBlank(Tail(parts))

\* Array.prototype.filter(c => c.trim().length > 0)
RECURSIVE FilterNonBlank(_)
FilterNonBlank(parts) ==
  IF parts = << >> THEN << >>
  ELSE IF Len(Trim(Head(parts))) > 0
       THEN <<Head(parts)>> \o FilterNonBlank(Tail(parts))
       ELSE FilterNonBlank(Tail(parts))

\* ------------------------------------------------------------ dates, titles
Digits(n) == IF n < 10 THEN <<n>> ELSE <<n \div 10, n % 10>>

\* `日記 ${year}/${parseInt(month)}/${parseInt(day)}` for the JST day d
\* ("nikki" stands for the two characters of 日記)
CanonicalTitle(d) == <<"nikki 2026/1/">> \o Digits(d)

\* titles a caller of saveToNotionDiary can supply
Titles == {CanonicalTitle(d) : d \in Days}

\* new Date(day + 'T00:00:00+09:00'): midnight JST of day d, as an instant
MidnightJST(d) == 24 * d - 9

formatDateAsJST_UTC(t) == t \div 24

\* formatDateAsJST: the JST calendar day of an instant
formatDateAsJST(t) == (t + 9) \div 24

\* the date property written by the REST adapter: a date without time
RestDate(t) == [start |-> 24 * formatDateAsJST(t), is_datetime |-> FALSE]

\* the "YYYY-MM-DD" that queryDiaryEntries keeps of a stored date
DatePart(date) == date.start \div 24

VARIABLES
  pages,      \* the store: page id = index
  recs,       \* the recordings table
  procs,      \* the recording.process calls in flight, one per recording
  dd,         \* the running mergeDuplicates call
  hist,       \* history: finished processing calls, finished runs, write count
  meta        \* the last call of a function outside the pipeline (or the
              \* running date-repair utility, or a second mergeDuplicates
              \* call in flight): its inputs and its result

vars == <<pages, recs, procs, dd, hist, meta>>

PageIds == 1..Len(pages)
LiveIds == {i \in PageIds : ~pages[i].archived}

\* ---------------------------------------------------------- store adapter
\* POST /v1/pages
CreatePage(title, content, tags, date) ==
  Append(pages, [title |-> title, content |-> content, tags |-> tags,
                 date |-> date, archived |-> FALSE])

UpdateContentTags_Redate(id, content, tags) ==
  [pages EXCEPT ![id].content = content, ![id].tags = tags,
                ![id].date = [start |-> 24 * MaxDay, is_datetime |-> FALSE]]

\* PATCH /v1/pages/{id} with the content and tags properties only
UpdateContentTags(id, content, tags) ==
  [pages EXCEPT ![id].content = content, ![id].tags = tags]

\* PATCH /v1/pages/{id} {archived: true}
ArchivePage(id) == [pages EXCEPT ![id].archived = TRUE]

\* the orders in which the store may return the ids of S: descending by the
\* date property, pages with equal dates in any order
SortedOrders(S) ==
  {o \in [1..Cardinality(S) -> S] :
     /\ \A i, j \in 1..Cardinality(S) : i # j => o[i] # o[j]
     /\ \A i \in 1..(Cardinality(S) - 1) :
          pages[o[i]].date.start >= pages[o[i + 1]].date.start}

Take(s, n) == SubSeq(s, 1, IF Len(s) < n THEN Len(s) ELSE n)

\* one parsed result of queryDiaryEntries
Entry(id) ==
  [pageId |-> id, title |-> pages[id].title, content |-> pages[id].content,
   tags |-> pages[id].tags, date |-> DatePart(pages[id].date)]

\* queryDiaryEntries() without options: one request, sorted by date
\* descending, no cursor is followed, so the answer is data.results of the
\* first response, which holds at most ResultCap pages
queryDiaryEntries ==
  {[k \in 1..Len(Take(o, ResultCap)) |-> Entry(o[k])] : o \in SortedOrders(LiveIds)}

\* ------------------------------------------------- mergeDuplicates, locally
\* keys of groupedByTitle in insertion order
RECURSIVE TitleKeys(_, _)
TitleKeys(entries, seen) ==
  IF entries = << >> THEN << >>
  ELSE IF Head(entries).title \in seen THEN TitleKeys(Tail(entries), seen)
  ELSE <<Head(entries).title>> \o TitleKeys(Tail(entries), seen \cup {Head(entries).title})

SameTitle(entries, t) ==
  LET Pick(e) == e.title = t IN SelectSeq(entries, Pick)

\* entries.sort((a, b) => b.date.localeCompare(a.date)): stable, newest first
RECURSIVE InsertByDate(_, _)
InsertByDate(e, sorted) ==
  IF sorted = << >> THEN <<e>>
  ELSE IF Head(sorted).date >= e.date THEN <<Head(sorted)>> \o InsertByDate(e, Tail(sorted))
  ELSE <<e>> \o sorted

RECURSIVE SortByDateDesc(_)
SortByDateDesc(entries) ==
  IF entries = << >> THEN << >>
  ELSE InsertByDate(entries[Len(entries)],
                    SortByDateDesc(SubSeq(entries, 1, Len(entries) - 1)))

\* Array.from(groupedByTitle.entries()), each group as the loop sorts it
GroupsOf(entries) ==
  LET keys == TitleKeys(entries, {})
  IN [k \in 1..Len(keys) |-> SortByDateDesc(SameTitle(entries, keys[k]))]

ContentsOf(group) == [k \in 1..Len(group) |-> group[k].content]

MergedContent_Unfiltered(group) == JoinBlank(ContentsOf(group))

\* [master.content, ...duplicates.map(e => e.content)]
\*   .filter(c => c.trim().length > 0).join('\n\n')
MergedContent(group) == JoinBlank(FilterNonBlank(ContentsOf(group)))

MergedTags_MasterOnly(group) == group[1].tags

\* the union of the tags of all entries of the group
MergedTags(group) == UNION {group[k].tags : k \in 1..Len(group)}

NextDup_NoSkip(groups, g) == g

\* the loop skips groups with entries.length <= 1: next index at or after g
\* of a group that gets store calls, Len + 1 when there is none
RECURSIVE NextDup(_, _)
NextDup(groups, g) ==
  IF g > Len(groups) THEN g
  ELSE IF Len(groups[g]) > 1 THEN g
  ELSE NextDup(groups, g + 1)

\* ------------------------------------------------------------------- state
\* "now" of every call: 10:00 JST on the last modelled day
Now == MidnightJST(MaxDay) + 10

NoMeta == [op |-> "none", now |-> 0, text |-> << >>, reply |-> << >>, out |-> << >>]

NoCall ==
  [pc |-> "idle", day |-> 0, tags |-> {}, content |-> << >>, existing |-> << >>,
   began |-> 0, located |-> TRUE]

Idle ==
  [pc |-> "idle", groups |-> << >>, g |-> 0, d |-> 0,
   mergedCount |-> 0, deletedCount |-> 0, pre |-> << >>, w0 |-> 0]

Init ==
  /\ pages = << >>
  /\ recs = [r \in RecIds |->
               [status |-> "processing", notionPageId |-> 0, notionPageUrl |-> << >>,
                errorMessage |-> << >>]]
  /\ procs = [p \in RecIds |-> NoCall]
  /\ dd = Idle
  /\ hist = [calls |-> << >>, runs |-> << >>, writes |-> 0]
  /\ meta = NoMeta

\* ------------------------------------------------- recording.saveToNotionDiary
\* `https://www.notion.so/${pageId.replace(/-/g, '')}`, which is also what
\* the store gives as the url of a page
PageUrl(id) == <<"https://www.notion.so/", id>>

CompletedRecord_KeepsUrl(id) ==
  [status |-> "completed", notionPageId |-> id, notionPageUrl |-> << >>]

\* updateRecording(id, {notionPageId, notionPageUrl, status: "completed"})
\* with the pageId and the pageUrl of notionResult
CompletedRecord(id) ==
  [status |-> "completed", notionPageId |-> id, notionPageUrl |-> PageUrl(id)]

\* db.update(recordings).set(updates): the columns named in updates change
UpdatedRecord(rec, updates) ==
  [k \in DOMAIN rec |-> IF k \in DOMAIN updates THEN updates[k] ELSE rec[k]]

FailedRecord_StatusOnly(message) == [status |-> "failed"]

\* updateRecording(id, {status: "failed", errorMessage})
FailedRecord(message) == [status |-> "failed", errorMessage |-> <<message>>]

\* error.message of what a step of process throws: the typed error of the
\* transcription or the error of a collaborator call before the locate,
\* the error of the merge collaborator or of the create after it
ThrownMessage(pc) == IF pc = "locate" THEN "Transcription failed" ELSE "Notion API error"

\* the outcome of the call as the caller sees it
ResultCode(via) ==
  IF via \in {"failed", "fallback_failed"} THEN "INTERNAL_SERVER_ERROR" ELSE "OK"

\* the date input is a string: a day, or (0) one that does not parse, for
\* which saveToNotion falls back to the current instant
InputDate(day) == IF day = 0 THEN Now ELSE MidnightJST(day)

\* the record of a finished processing call: how it wrote (via), to which
\* page, whether every store call it made succeeded, how many calls had
\* finished when it began, and the pages with its title after its write
Call(op, day, title, via, pageId, ok, began, store) ==
  [op |-> op, day |-> day, title |-> title, via |-> via, pageId |-> pageId,
   ok |-> ok, began |-> began, code |-> ResultCode(via),
   n |-> Cardinality({i \in 1..Len(store) : ~store[i].archived /\ store[i].title = title})]

saveToNotionDiary(r, title, content, tags, day) ==
  /\ Len(pages) < MaxPages
  /\ pages' = CreatePage(title, content, tags, RestDate(InputDate(day)))
  /\ recs' = [recs EXCEPT ![r] = UpdatedRecord(@, CompletedRecord(Len(pages')))]
  /\ hist' = [hist EXCEPT
       !.writes = @ + 1,
       !.calls = Append(@, Call("saveToNotionDiary", formatDateAsJST(InputDate(day)), title,
                                "create", Len(pages'), TRUE, Len(hist.calls), pages'))]
  /\ UNCHANGED <<procs, dd, meta>>

\* ------------------------------------------- recording.process (routers.ts)
\* the date property written through the command-line tool:
\* "date:日付:start": params.date.toISOString(), is_datetime: 1
McpDate(t) == [start |-> t, is_datetime |-> TRUE]

\* the answers of the merge collaborator: no text, or some text, which may
\* be the two bodies joined, only one of the bodies, or nothing
MergeReplies(existingContent, newContent) ==
  {<<"none">>} \cup
  {<<"text", t>> : t \in {existingContent \o <<NL, NL>> \o newContent,
                          existingContent, newContent, << >>}}

\* typeof content === 'string' ? content : `${existingContent}\n\n${newContent}`
MergedByReply(reply, existingContent, newContent) ==
  IF reply[1] = "text" THEN reply[2] ELSE existingContent \o <<NL, NL>> \o newContent

\* (params as any).existingTags || [] : process passes no existingTags
ExistingTagsParam(existing) == {}

\* Array.from(new Set([...existingTags, ...params.tags]))
MergedTagsParam(existing, tags) == ExistingTagsParam(existing) \cup tags

EndCall(p, via, pageId, ok, store) ==
  /\ procs' = [procs EXCEPT ![p].pc = "done"]
  /\ recs' = [recs EXCEPT ![p] =
       IF via \in {"failed", "fallback_failed"}
       THEN UpdatedRecord(@, FailedRecord(ThrownMessage(procs[p].pc)))
       ELSE UpdatedRecord(@, CompletedRecord(pageId))]
  /\ hist' = [hist EXCEPT
       !.writes = IF via \in {"failed", "fallback_failed"} THEN @ ELSE @ + 1,
       !.calls = Append(@, Call("process", procs[p].day, CanonicalTitle(procs[p].day),
                                via, pageId, ok /\ procs[p].located, procs[p].began, store))]

\* transcribeAudio, extractMetadata, the union of the user's and the
\* extracted tags, formatTextToBulletPoints: the call holds a resolved day,
\* its tags and its formatted body
processBegin(p, day, tags, content) ==
  /\ procs[p].pc = "idle"
  /\ procs' = [procs EXCEPT ![p] =
       [pc |-> "locate", day |-> day, tags |-> tags, content |-> content,
        existing |-> << >>, began |-> Len(hist.calls), located |-> TRUE]]
  /\ UNCHANGED <<pages, recs, dd, hist, meta>>

\* what the search of the store may print for a title: any live pages, all
\* pages that carry exactly that title among them
SearchResults(title) ==
  {S \in SUBSET LiveIds : \A i \in LiveIds : pages[i].title = title => i \in S}

ExactMatches_Contains(results, title) ==
  {i \in results : Contains(pages[i].title, title)}

\* searchResults.results.find(r => r.title && r.title === `日記 ${dateStr}`):
\* the results find can return, for results in any order
ExactMatches(results, title) ==
  {i \in results : pages[i].title = title}


\* findExistingDiaryByDate: the first search result whose title is exactly
\* the canonical title of the day, with its body and tags; null without one
processLocate(p) ==
  /\ procs[p].pc = "locate"
  /\ \E results \in SearchResults(CanonicalTitle(procs[p].day)) :
       LET matches == ExactMatches(results, CanonicalTitle(procs[p].day))
       IN \/ /\ matches = {}
             /\ procs' = [procs EXCEPT ![p].pc = "write"]
          \/ \E i \in matches :
               procs' = [procs EXCEPT ![p].pc = "write",
                           ![p].existing = <<[pageId |-> i, content |-> pages[i].content,
                                              existingTags |-> pages[i].tags]>>]
  /\ UNCHANGED <<pages, recs, dd, hist, meta>>

processLocateFails_Raises(p) ==
  /\ procs[p].pc = "locate"
  /\ procs' = [procs EXCEPT ![p].pc = "done", ![p].located = FALSE]
  /\ recs' = [recs EXCEPT ![p].status = "failed"]
  /\ UNCHANGED <<pages, dd, hist, meta>>

\* the search or the fetch fails or prints no result: null
processLocateFails(p) ==
  /\ procs[p].pc = "locate"
  /\ procs' = [procs EXCEPT ![p].pc = "write", ![p].located = FALSE]
  /\ UNCHANGED <<pages, recs, dd, hist, meta>>

\* mergeWithExistingDiary, the update succeeds: the collaborator's text and
\* the merged tags replace the body and the tags of the located page
processMerge(p) ==
  /\ procs[p].pc = "write"
  /\ procs[p].existing # << >>
  /\ LET existing == procs[p].existing[1]
     IN \E reply \in MergeReplies(existing.content, procs[p].content) :
          LET mergedContent == MergedByReply(reply, existing.content, procs[p].content)
              mergedTags == MergedTagsParam(existing, procs[p].tags)
          IN /\ ~pages[existing.pageId].archived
             /\ pages' = UpdateContentTags(existing.pageId, mergedContent, mergedTags)
             /\ EndCall(p, "update", existing.pageId, TRUE, pages')
  /\ UNCHANGED <<dd, meta>>

\* mergeWithExistingDiary, the update exits with a non-zero status: a new
\* page with the canonical title, the merged text and the call's tags
processMergeFallback(p) ==
  /\ procs[p].pc = "write"
  /\ procs[p].existing # << >>
  /\ Len(pages) < MaxPages
  /\ LET existing == procs[p].existing[1]
     IN \E reply \in MergeReplies(existing.content, procs[p].content) :
          LET mergedContent == MergedByReply(reply, existing.content, procs[p].content)
          IN /\ pages' = CreatePage(CanonicalTitle(procs[p].day), mergedContent,
                                    procs[p].tags, McpDate(MidnightJST(procs[p].day)))
             /\ EndCall(p, "fallback", Len(pages'), FALSE, pages')
  /\ UNCHANGED <<dd, meta>>

\* the update exits with a non-zero status and the create of the fallback
\* throws as well: the error reaches the catch block of process
processMergeFallbackFails(p) ==
  /\ procs[p].pc = "write"
  /\ procs[p].existing # << >>
  /\ EndCall(p, "fallback_failed", 0, FALSE, pages)
  /\ UNCHANGED <<pages, dd, meta>>

\* no page was located: saveToNotion with the canonical title
processCreate(p) ==
  /\ procs[p].pc = "write"
  /\ procs[p].existing = << >>
  /\ Len(pages) < MaxPages
  /\ pages' = CreatePage(CanonicalTitle(procs[p].day), procs[p].content, procs[p].tags,
                         McpDate(MidnightJST(procs[p].day)))
  /\ EndCall(p, "create", Len(pages'), TRUE, pages')
  /\ UNCHANGED <<dd, meta>>

\* a step throws (the transcription error, a collaborator call, the create):
\* the catch block marks the recording failed and the call ends with
\* INTERNAL_SERVER_ERROR
processFails(p) ==
  /\ procs[p].pc \in {"locate", "write"}
  /\ EndCall(p, "failed", 0, FALSE, pages)
  /\ UNCHANGED <<pages, dd, meta>>

\* ------------------------------------------------------ notion.mergeDuplicates
RunRecord(outcome, store) ==
  [outcome |-> outcome, mergedCount |-> dd.mergedCount, deletedCount |-> dd.deletedCount,
   groups |-> dd.groups, pre |-> dd.pre, post |-> store,
   w0 |-> dd.w0, w1 |-> hist.writes]

EndRun(outcome, store) ==
  /\ dd' = Idle
  /\ hist' = [hist EXCEPT !.runs = Append(@, RunRecord(outcome, store))]

\* const allEntries = await queryDiaryEntries(); group by title; the loop
\* runs up to its first store call
mergeDuplicatesScan ==
  /\ dd.pc = "idle"
  /\ Len(hist.runs) < MaxRuns
  /\ \E entries \in queryDiaryEntries :
       LET groups == GroupsOf(entries)
       IN dd' = [pc |-> "loop", groups |-> groups, g |-> NextDup(groups, 1), d |-> 0,
                 mergedCount |-> 0, deletedCount |-> 0, pre |-> pages, w0 |-> hist.writes]
  /\ UNCHANGED <<pages, recs, procs, hist, meta>>

mergeDuplicatesUpdate_NotAwaited ==
  /\ dd.pc = "loop"
  /\ dd.g <= Len(dd.groups)
  /\ dd.d = 0
  /\ \/ LET group == dd.groups[dd.g]
            master == group[1]
        IN /\ ~pages[master.pageId].archived
           /\ pages' = UpdateContentTags(master.pageId, MergedContent(group), MergedTags(group))
     \/ pages' = pages
  /\ dd' = [dd EXCEPT !.mergedCount = @ + 1, !.d = 2]
  /\ UNCHANGED <<recs, procs, hist, meta>>

\* await updatePage(masterEntry.pageId, {content, tags}); mergedCount++
mergeDuplicatesUpdate ==
  /\ dd.pc = "loop"
  /\ dd.g <= Len(dd.groups)
  /\ dd.d = 0
  /\ LET group == dd.groups[dd.g]
         master == group[1]
     IN /\ ~pages[master.pageId].archived
        /\ pages' = UpdateContentTags(master.pageId, MergedContent(group), MergedTags(group))
  /\ dd' = [dd EXCEPT !.mergedCount = @ + 1, !.d = 2]
  /\ UNCHANGED <<recs, procs, hist, meta>>

mergeDuplicatesArchive_Uncounted ==
  /\ dd.pc = "loop"
  /\ dd.g <= Len(dd.groups)
  /\ dd.d >= 2
  /\ LET group == dd.groups[dd.g]
     IN /\ pages' = ArchivePage(group[dd.d].pageId)
        /\ dd' = IF dd.d < Len(group)
                 THEN [dd EXCEPT !.deletedCount = @ + 1, !.d = @ + 1]
                 ELSE [dd EXCEPT !.d = 0, !.g = NextDup(dd.groups, dd.g + 1)]
  /\ UNCHANGED <<recs, procs, hist, meta>>

mergeDuplicatesArchive_Master ==
  /\ dd.pc = "loop"
  /\ dd.g <= Len(dd.groups)
  /\ dd.d >= 2
  /\ LET group == dd.groups[dd.g]
     IN /\ pages' = ArchivePage(group[dd.d - 1].pageId)
        /\ dd' = IF dd.d < Len(group)
                 THEN [dd EXCEPT !.deletedCount = @ + 1, !.d = @ + 1]
                 ELSE [dd EXCEPT !.deletedCount = @ + 1, !.d = 0,
                                 !.g = NextDup(dd.groups, dd.g + 1)]
  /\ UNCHANGED <<recs, procs, hist, meta>>

\* await deletePage(duplicate.pageId); deletedCount++ ; after the last
\* duplicate the loop goes on to the next group with more than one entry
mergeDuplicatesArchive ==
  /\ dd.pc = "loop"
  /\ dd.g <= Len(dd.groups)
  /\ dd.d >= 2
  /\ LET group == dd.groups[dd.g]
     IN /\ pages' = ArchivePage(group[dd.d].pageId)
        /\ dd' = IF dd.d < Len(group)
                 THEN [dd EXCEPT !.deletedCount = @ + 1, !.d = @ + 1]
                 ELSE [dd EXCEPT !.deletedCount = @ + 1, !.d = 0,
                                 !.g = NextDup(dd.groups, dd.g + 1)]
  /\ UNCHANGED <<recs, procs, hist, meta>>

\* return {success: true, mergedCount, deletedCount}
mergeDuplicatesReturn ==
  /\ dd.pc = "loop"
  /\ dd.g > Len(dd.groups)
  /\ EndRun("ok", pages)
  /\ UNCHANGED <<pages, recs, procs, meta>>

\* the query, updatePage or deletePage throws: nothing catches it in the
\* mutation, the call ends with the error
mergeDuplicatesThrows ==
  /\ \/ dd.pc = "idle" /\ Len(hist.runs) < MaxRuns
     \/ dd.pc = "loop" /\ dd.g <= Len(dd.groups)
  /\ EndRun("error", pages)
  /\ UNCHANGED <<pages, recs, procs, meta>>

\* the server process stops between two store calls of a run
mergeDuplicatesInterrupted ==
  /\ dd.pc = "loop"
  /\ dd.g <= Len(dd.groups)
  /\ EndRun("interrupted", pages)
  /\ UNCHANGED <<pages, recs, procs, meta>>

\* the tag lists a caller can send
TagInputs == {{}, {"work"}, {"health"}}

\* ------------------------------------------------------------ specifications
\* a mergeDuplicates call has begun or ended
DedupeBegun == dd.pc # "idle" \/ hist.runs # << >>

\* Page ids carry no meaning for any operation, so the specifications save
\* pages in one order per multiset of pages: a page may follow only pages
\* that do not rank above it
BodyRank(content) ==
  IF content = << >> THEN 0 ELSE IF content = <<SP>> THEN 1
  ELSE IF content = <<"a">> THEN 2 ELSE 3

TagRank(tags) == IF tags = {} THEN 0 ELSE IF tags = {"work"} THEN 1 ELSE 2

Rank(title, content, tags, day) ==
  (((CHOOSE d \in Days : CanonicalTitle(d) = title) * 4 + BodyRank(content)) * 3
     + TagRank(tags)) * (MaxDay + 1) + day

InOrder(title, content, tags, day) ==
  IF pages = << >> THEN TRUE
  ELSE LET last == pages[Len(pages)]
       IN Rank(last.title, last.content, last.tags, DatePart(last.date))
            <= Rank(title, content, tags, day)

\* Spec: pages with any title, body and date are saved, then mergeDuplicates
\* is called up to MaxRuns times, one call at a time, each of which may
\* return, throw at a store call or be cut short
Next ==
  \/ /\ ~DedupeBegun
     /\ \E title \in Titles, content \in Bodies, day \in Days :
          /\ InOrder(title, content, {}, day)
          /\ saveToNotionDiary(1, title, content, {}, day)
  \/ mergeDuplicatesScan
  \/ mergeDuplicatesUpdate
  \/ mergeDuplicatesArchive
  \/ mergeDuplicatesReturn
  \/ mergeDuplicatesThrows
  \/ mergeDuplicatesInterrupted

Spec == Init /\ [][Next]_vars

\* SpecTags: pages that differ in their tags are saved under the canonical
\* title of their date, and every mergeDuplicates run goes to its end (a run
\* that stops early leaves a store that some saved population also gives, as
\* far as titles and tags go)
NextTags ==
  \/ /\ ~DedupeBegun
     /\ \E tags \in TagInputs, day \in Days :
          /\ InOrder(CanonicalTitle(day), <<"a">>, tags, day)
          /\ saveToNotionDiary(1, CanonicalTitle(day), <<"a">>, tags, day)
  \/ mergeDuplicatesScan
  \/ mergeDuplicatesUpdate
  \/ mergeDuplicatesArchive
  \/ mergeDuplicatesReturn

SpecTags == Init /\ [][NextTags]_vars

\* ------------------------------------------------------------------- properties
LiveOf(store) == {i \in 1..Len(store) : ~store[i].archived}
LiveWithTitle(store, t) == {i \in LiveOf(store) : store[i].title = t}
LiveTitles(store) == {store[i].title : i \in LiveOf(store)}
Runs == 1..Len(hist.runs)

\* run k returned normally and no other call wrote to the store meanwhile
Completed(k) == hist.runs[k].outcome = "ok" /\ hist.runs[k].w0 = hist.runs[k].w1

\* C1: after a mergeDuplicates run that returns without a store error,
\* whatever pages were stored before, no two non-archived pages of the store
\* have the same title.
C1_NoTwoLivePagesShareTitle ==
  \A k \in Runs : Completed(k) =>
    \A t \in LiveTitles(hist.runs[k].post) :
      Cardinality(LiveWithTitle(hist.runs[k].post, t)) = 1

\* C2: after a run that returns without error, every title that had more
\* than one page before the run has a single surviving page, whose content
\* contains the non-empty content of every page that had the title before.
\* (Non-empty is read as the loop reads it: there is text left after trim.)
C2_SurvivorContainsEveryContent ==
  \A k \in Runs : Completed(k) =>
    LET pre == hist.runs[k].pre
        post == hist.runs[k].post
    IN \A t \in LiveTitles(pre) :
         Cardinality(LiveWithTitle(pre, t)) > 1 =>
           /\ Cardinality(LiveWithTitle(post, t)) = 1
           /\ \A s \in LiveWithTitle(post, t) : \A i \in LiveWithTitle(pre, t) :
                Trim(pre[i].content) # << >> =>
                  Contains(post[s].content, pre[i].content)

\* C8: a run that follows a completed run, with no store write in between,
\* returns mergedCount = 0 and deletedCount = 0 and changes no page; and no
\* run increases the number of non-archived pages.
C8_SecondRunIsNoOp ==
  /\ \A k \in Runs : k > 1 /\ Completed(k - 1) /\ Completed(k)
                     /\ hist.runs[k - 1].w1 = hist.runs[k].w0 =>
       /\ hist.runs[k].mergedCount = 0
       /\ hist.runs[k].deletedCount = 0
       /\ hist.runs[k].post = hist.runs[k].pre
  /\ \A k \in Runs : hist.runs[k].w0 = hist.runs[k].w1 =>
       Cardinality(LiveOf(hist.runs[k].post)) <= Cardinality(LiveOf(hist.runs[k].pre))

\* C10: when a run is cut short between two of its store calls and the next
\* run returns, every title has exactly one non-archived page, and its
\* content contains every body a page of that title had before the first run.
\* (A body is text that trim leaves non-empty.)
C10_RerunConverges ==
  \A k \in Runs :
    (k > 1 /\ hist.runs[k - 1].outcome = "interrupted" /\ Completed(k)
       /\ hist.runs[k - 1].w0 = hist.runs[k].w0) =>
      LET pre == hist.runs[k - 1].pre
          post == hist.runs[k].post
      IN \A t \in LiveTitles(pre) :
           /\ Cardinality(LiveWithTitle(post, t)) = 1
           /\ \A s \in LiveWithTitle(post, t) : \A i \in LiveWithTitle(pre, t) :
                Trim(pre[i].content) # << >> =>
                  Contains(post[s].content, pre[i].content)

\* C9: for every title group of more than one page that mergeDuplicates
\* processes, the tag set written to the master is the union of the tag sets
\* the pages of the group had when the run began.
C9_MasterGetsTagUnion ==
  [][(dd.pc = "loop" /\ dd.d = 0 /\ dd'.pc = "loop" /\ dd'.d = 2) =>
       LET group == dd.groups[dd.g]
       IN pages'[group[1].pageId].tags =
            UNION {dd.pre[group[k].pageId].tags : k \in 1..Len(group)}]_vars

\* the master of the current group has been given tags it did not have
C9_Witness ==
  /\ dd.pc = "loop"
  /\ dd.d = 2
  /\ LET group == dd.groups[dd.g]
         m == group[1].pageId
     IN /\ dd.pre[m].tags # pages[m].tags
        /\ \A k \in 1..Len(group) : dd.pre[group[k].pageId].tags \subseteq pages[m].tags
        /\ \E k \in 2..Len(group) : dd.pre[group[k].pageId].tags # {}

\* a process call is between its first and its last step
InFlight(p) == procs[p].pc \in {"locate", "write"}
PipelineBegun == \E p \in RecIds : procs[p].pc # "idle"

\* what the pipeline hands to the locate step in the specifications below
ProcTags == {{}, {"health"}}
ProcInputBodies == {<< >>, <<"b">>}

\* SpecMerge: pages are saved under the canonical title of their date, then
\* each recording is processed once, one call after the other
NextMerge ==
  \/ /\ ~PipelineBegun
     /\ \E day \in Days, tags \in {{}, {"work"}} :
          /\ InOrder(CanonicalTitle(day), <<"a">>, tags, day)
          /\ saveToNotionDiary(1, CanonicalTitle(day), <<"a">>, tags, day)
  \/ \E p \in RecIds, day \in Days, tags \in ProcTags, content \in ProcInputBodies :
       /\ \A q \in RecIds : ~InFlight(q)
       /\ processBegin(p, day, tags, content)
  \/ \E p \in RecIds : processLocate(p)
  \/ \E p \in RecIds : processLocateFails(p)
  \/ \E p \in RecIds : processMerge(p)
  \/ \E p \in RecIds : processMergeFallback(p)
  \/ \E p \in RecIds : processMergeFallbackFails(p)
  \/ \E p \in RecIds : processCreate(p)
  \/ \E p \in RecIds : processFails(p)

SpecMerge == Init /\ [][NextMerge]_vars

\* SpecRace: at most one page is saved, the two recordings are processed in
\* any interleaving, and mergeDuplicates is called when no process call is
\* in flight
NextRace ==
  \/ /\ ~PipelineBegun
     /\ pages = << >>
     /\ \E day \in Days : saveToNotionDiary(1, CanonicalTitle(day), <<"a">>, {}, day)
  \/ \E p \in RecIds, day \in Days, content \in {<<"a">>, <<"b">>} :
       /\ ~DedupeBegun
       /\ processBegin(p, day, {}, content)
  \/ \E p \in RecIds : processLocate(p)
  \/ \E p \in RecIds : processLocateFails(p)
  \/ \E p \in RecIds : processMerge(p)
  \/ \E p \in RecIds : processMergeFallback(p)
  \/ \E p \in RecIds : processMergeFallbackFails(p)
  \/ \E p \in RecIds : processCreate(p)
  \/ \E p \in RecIds : processFails(p)
  \/ (\A p \in RecIds : ~InFlight(p)) /\ mergeDuplicatesScan
  \/ mergeDuplicatesUpdate
  \/ mergeDuplicatesArchive
  \/ mergeDuplicatesReturn
  \/ mergeDuplicatesThrows
  \/ mergeDuplicatesInterrupted

SpecRace == Init /\ [][NextRace]_vars

\* ------------------------------------------------- properties of the pipeline
Calls == 1..Len(hist.calls)

\* the JST calendar day a stored date denotes
StoredDay(date) ==
  IF date.is_datetime THEN formatDateAsJST(date.start) ELSE date.start \div 24

\* the step in which process call p returns from mergeWithExistingDiary
MergeReturns(p) ==
  /\ procs[p].pc = "write"
  /\ procs[p].existing # << >>
  /\ procs'[p].pc = "done"
  /\ hist'.calls[Len(hist'.calls)].via \in {"update", "fallback"}

\* C3: whatever text the collaborator returns, when the located page's
\* content and the new content are both non-empty, the content that
\* mergeWithExistingDiary writes (to the page or to the fallback page)
\* contains the content the page had.
C3_MergeKeepsExistingContent ==
  [][\A p \in RecIds : MergeReturns(p) =>
       LET existing == procs[p].existing[1]
       IN (existing.content # << >> /\ procs[p].content # << >>) =>
            Contains(pages'[recs'[p].notionPageId].content, existing.content)]_vars

\* C4: when process merges into an existing page, the tags written to the
\* page are the union of the tags the page had and the new entry's tags.
C4_MergeWritesTagUnion ==
  [][\A p \in RecIds :
       (MergeReturns(p) /\ hist'.calls[Len(hist'.calls)].via = "update") =>
         LET id == procs[p].existing[1].pageId
         IN pages'[id].tags = pages[id].tags \cup procs[p].tags]_vars

\* C5: when the update of mergeWithExistingDiary fails and the create of the
\* fallback succeeds, the call completes: the page created and returned has
\* the canonical title and the date of the resolved day, and the new content
\* is in it.
C5_FallbackCreatesPage ==
  [][\A p \in RecIds :
       (MergeReturns(p) /\ hist'.calls[Len(hist'.calls)].via = "fallback") =>
         /\ recs'[p].status = "completed"
         /\ recs'[p].notionPageId = Len(pages')
         /\ Len(pages') = Len(pages) + 1
         /\ pages'[Len(pages')].title = CanonicalTitle(procs[p].day)
         /\ StoredDay(pages'[Len(pages')].date) = procs[p].day
         /\ Contains(pages'[Len(pages')].content, procs[p].content)]_vars

\* C7: when two processing calls for the same day run one after the other
\* and every store call succeeds, the second updates the page the first
\* created, and one page has the day's canonical title.
C7_SecondCallUpdatesFirstPage ==
  \A i, j \in Calls :
    (/\ j = i + 1
     /\ hist.calls[j].began >= i
     /\ hist.calls[i].day = hist.calls[j].day
     /\ hist.calls[i].title = CanonicalTitle(hist.calls[i].day)
     /\ hist.calls[j].title = CanonicalTitle(hist.calls[j].day)
     /\ hist.calls[i].ok /\ hist.calls[j].ok
     /\ hist.calls[i].via = "create" /\ hist.calls[i].n = 1) =>
      /\ hist.calls[j].via = "update"
      /\ hist.calls[j].pageId = hist.calls[i].pageId
      /\ hist.calls[j].n = 1

\* C6: when two process calls for one day both locate no page and both
\* create one, the next complete mergeDuplicates run leaves one non-archived
\* page with the title, holding both bodies, and returns 1 and 1.
C6_RaceThenDedupe ==
  \A i, j \in Calls : \A k \in Runs :
    (/\ i < j
     /\ hist.calls[i].op = "process" /\ hist.calls[j].op = "process"
     /\ hist.calls[i].via = "create" /\ hist.calls[j].via = "create"
     /\ hist.calls[i].ok /\ hist.calls[j].ok
     /\ hist.calls[i].day = hist.calls[j].day
     /\ hist.calls[i].n = 1 /\ hist.calls[j].n = 2
     /\ hist.calls[j].began < i
     /\ k = 1 /\ Completed(k)
     /\ LiveWithTitle(hist.runs[k].pre, hist.calls[i].title)
          = {hist.calls[i].pageId, hist.calls[j].pageId}) =>
      LET pre == hist.runs[k].pre
          post == hist.runs[k].post
          t == hist.calls[i].title
      IN /\ Cardinality(LiveWithTitle(post, t)) = 1
         /\ \A s \in LiveWithTitle(post, t) :
              /\ Contains(post[s].content, pre[hist.calls[i].pageId].content)
              /\ Contains(post[s].content, pre[hist.calls[j].pageId].content)
         /\ hist.runs[k].mergedCount = 1
         /\ hist.runs[k].deletedCount = 1

\* ---------------------------------------------- properties of error handling
\* C11: a mergeDuplicates run in which a store call of a title group fails
\* does not end with the error: it goes on and returns its counts.
C11_GroupErrorIsCaught ==
  \A k \in Runs :
    hist.runs[k].groups # << >> => hist.runs[k].outcome # "error"

\* ------------------------------------------------- properties of the locate
\* days whose canonical titles contain one another: d and 10 * d
LocateDays == Days \cup {10 * d : d \in Days}

\* SpecLocate: pages are saved under the canonical titles of such days,
\* then each recording is processed once, one call after the other
NextLocate ==
  \/ /\ ~PipelineBegun
     /\ \E day \in LocateDays :
          /\ IF pages = << >> THEN TRUE ELSE DatePart(pages[Len(pages)].date) <= day
          /\ saveToNotionDiary(1, CanonicalTitle(day), <<"a">>, {}, day)
  \/ \E p \in RecIds, day \in LocateDays :
       /\ \A q \in RecIds : ~InFlight(q)
       /\ processBegin(p, day, {}, <<"b">>)
  \/ \E p \in RecIds : processLocate(p)
  \/ \E p \in RecIds : processLocateFails(p)
  \/ \E p \in RecIds : processMerge(p)
  \/ \E p \in RecIds : processMergeFallback(p)
  \/ \E p \in RecIds : processMergeFallbackFails(p)
  \/ \E p \in RecIds : processCreate(p)
  \/ \E p \in RecIds : processFails(p)

SpecLocate == Init /\ [][NextLocate]_vars

\* C12: the page findExistingDiaryByDate returns carries exactly the
\* canonical title of the day looked for, whatever the search printed.
C12_LocateReturnsExactTitle ==
  [][\A p \in RecIds :
       (procs[p].pc = "locate" /\ procs'[p].pc = "write" /\ procs'[p].existing # << >>) =>
         pages[procs'[p].existing[1].pageId].title = CanonicalTitle(procs[p].day)]_vars

\* a page was located while a live page has a title that contains the title
\* looked for, or is contained in it, and is not equal to it
C12_Witness ==
  \E p \in RecIds :
    /\ procs[p].pc = "write"
    /\ procs[p].existing # << >>
    /\ \E i \in LiveIds :
         /\ pages[i].title # CanonicalTitle(procs[p].day)
         /\ \/ Contains(pages[i].title, CanonicalTitle(procs[p].day))
            \/ Contains(CanonicalTitle(procs[p].day), pages[i].title)

\* ---------------------------------------------------- properties of the dates
\* extractDateFromTitle: the calendar day written in a title
TitleDay(title) == CHOOSE d \in LocateDays : CanonicalTitle(d) = title

\* C13: every page written by the pipeline has a date field whose calendar
\* date is the date written in its title.
C13_DateMatchesTitle ==
  \A i \in PageIds : DatePart(pages[i].date) = TitleDay(pages[i].title)

\* ------------------------------------------------ extractMetadata (routers.ts)
\* days >= -365 && days <= 7
MinRelativeDays == 0 - 365
MaxRelativeDays == 7
\* oneYearAgo.setFullYear(currentDate.getFullYear() - 1): from a day of
\* January 2026 (the days modelled) the same day of 2025, 365 days back
YearDays == 365
\* oneWeekLater.setDate(currentDate.getDate() + 7)
WeekDays == 7

\* the instants a call can run at: hours of the modelled days, on both sides
\* of the UTC midnight (09:00 JST)
NowInstants == {MidnightJST(d) + h : d \in Days, h \in {0, 8, 9, 23}}

\* currentDate: new Date(currentDateStr + 'T00:00:00+09:00')
CurrentDate(now) == MidnightJST(formatDateAsJST(now))

\* the date strings a collaborator can send as a specific date: a calendar
\* date (day), a string whose day of month is at most 31 and exceeds its
\* month, which the runtime's parser may roll over to a calendar date
\* ("2025-02-29", "2025-02-30", "2025-02-31": 1, 2 and 3 March 2025, days
\* -305, -304 and -303 from 1 January 2026 as day 1), or text that is no date
NoDate == [kind |-> "garbage", day |-> 0]
RolledDays == {0 - 305, 0 - 304, 0 - 303}
SpecificInputs ==
  {[kind |-> "date", day |-> n] : n \in (1 - YearDays - 2)..(MaxDay + WeekDays + 2)}
    \cup {[kind |-> "rolled", day |-> n] : n \in RolledDays}
    \cup {NoDate}

\* new Date(date + 'T00:00:00+09:00') and !isNaN(getTime()): the instants the
\* parse can give, << >> standing for an invalid Date
ParseSpecific(D) ==
  IF D.kind = "date" THEN {<<MidnightJST(D.day)>>}
  ELSE IF D.kind = "rolled" THEN {<<MidnightJST(D.day)>>, << >>}
  ELSE {<< >>}

SpecificDate_Unchecked(currentDate, extracted) ==
  IF extracted = << >> THEN currentDate ELSE extracted[1]

\* extractedDate >= oneYearAgo && extractedDate <= oneWeekLater
SpecificDate(currentDate, extracted) ==
  IF extracted = << >> THEN currentDate
  ELSE IF /\ extracted[1] >= currentDate - YearDays * 24
          /\ extracted[1] <= currentDate + WeekDays * 24
       THEN extracted[1]
       ELSE currentDate

RelativeDate_Exclusive(currentDate, days) ==
  IF days > MinRelativeDays /\ days < MaxRelativeDays
  THEN currentDate + days * 24
  ELSE currentDate

\* currentDate.getTime() + days * 24 * 60 * 60 * 1000 within the range
RelativeDate(currentDate, days) ==
  IF days >= MinRelativeDays /\ days <= MaxRelativeDays
  THEN currentDate + days * 24
  ELSE currentDate

NoInfo == [type |-> "null", days |-> 0, date |-> NoDate]
DateInfos ==
  {NoInfo}
    \cup {[type |-> "relative", days |-> d, date |-> NoDate] :
            d \in (MinRelativeDays - 2)..(MaxRelativeDays + 2)}
    \cup {[type |-> "specific", days |-> 0, date |-> D] : D \in SpecificInputs}

\* the outcomes of the collaborator call: it throws; its content is no
\* string; the string is no JSON; the JSON is null; the JSON is an object
\* with dateInfo and with tags that are an array or not
MetadataReplies ==
  {[kind |-> k, dateInfo |-> NoInfo, tags |-> {}, tagsIsArray |-> FALSE] :
     k \in {"throws", "nostring", "unparsable", "null"}}
    \cup {[kind |-> "object", dateInfo |-> i, tags |-> t[1], tagsIsArray |-> t[2]] :
            i \in DateInfos, t \in {<<{}, TRUE>>, <<{"work"}, TRUE>>, <<{}, FALSE>>}}

\* the dates finalDate can get
FinalDates(currentDate, dateInfo) ==
  IF dateInfo.type = "specific"
  THEN {SpecificDate(currentDate, e) : e \in ParseSpecific(dateInfo.date)}
  ELSE IF dateInfo.type = "relative"
       THEN {RelativeDate(currentDate, dateInfo.days)}
       ELSE {currentDate}

\* what a call of extractMetadata at the instant now gives for a reply
MetadataResults(now, reply) ==
  IF reply.kind \in {"throws", "null"}
  THEN {[raised |-> TRUE, date |-> 0, tags |-> {}]}
  ELSE IF reply.kind \in {"nostring", "unparsable"}
       THEN {[raised |-> FALSE, date |-> CurrentDate(now), tags |-> {}]}
       ELSE {[raised |-> FALSE, date |-> f,
              tags |-> IF reply.tagsIsArray THEN reply.tags ELSE {}] :
               f \in FinalDates(CurrentDate(now), reply.dateInfo)}

extractMetadata ==
  /\ meta.op = "none"
  /\ \E now \in NowInstants, reply \in MetadataReplies :
       \E out \in MetadataResults(now, reply) :
         meta' = [op |-> "extractMetadata", now |-> now, text |-> << >>,
                  reply |-> reply, out |-> out]
  /\ UNCHANGED <<pages, recs, procs, dd, hist>>

\* ------------------------------------- formatTextToBulletPoints (routers.ts)
\* transcriptions handed to the function
RawTexts == {<< >>, <<"a">>, <<"a", SP>>}

\* the outcomes of the collaborator call: it throws; its content is no
\* string; its content is a string
FormatReplies ==
  {[kind |-> k, content |-> << >>] : k \in {"throws", "nostring"}}
    \cup {[kind |-> "string", content |-> c] : c \in {<< >>, <<"b">>, <<SP, "b", NL>>}}

\* typeof content === 'string' ? content.trim() : text
FormatResult(text, reply) ==
  IF reply.kind = "throws" THEN [raised |-> TRUE, text |-> << >>]
  ELSE [raised |-> FALSE, text |-> IF reply.kind = "string" THEN Trim(reply.content) ELSE text]

formatTextToBulletPoints ==
  /\ meta.op = "none"
  /\ \E text \in RawTexts, reply \in FormatReplies :
       meta' = [op |-> "formatTextToBulletPoints", now |-> 0, text |-> text,
                reply |-> reply, out |-> FormatResult(text, reply)]
  /\ UNCHANGED <<pages, recs, procs, dd, hist>>

\* SpecMeta: one of the two functions is called, at any of the instants, with
\* any reply of the collaborator
NextMeta ==
  \/ extractMetadata
  \/ formatTextToBulletPoints

SpecMeta == Init /\ [][NextMeta]_vars

\* a call of extractMetadata has returned a date for a reply that was an object
Resolved(type) ==
  /\ meta.op = "extractMetadata"
  /\ meta.reply.kind = "object"
  /\ meta.reply.dateInfo.type = type
  /\ ~meta.out.raised

\* C14: for relative(d), the resolved date is midnight JST of the day d days
\* after the JST day of the call when -365 <= d <= 7, and of the JST day of
\* the call otherwise.
C14_RelativeDate ==
  Resolved("relative") =>
    LET d == meta.reply.dateInfo.days
        today == formatDateAsJST(meta.now)
    IN meta.out.date = MidnightJST(IF d >= -365 /\ d <= 7 THEN today + d ELSE today)

\* the two ends of the accepted range were resolved away from today, and the
\* first offsets outside it were resolved to today
C14_Witness ==
  /\ Resolved("relative")
  /\ meta.reply.dateInfo.days \in {-365, 7}
  /\ meta.out.date # CurrentDate(meta.now)

\* C15: for specific(D), the resolved date is D when D is a calendar date
\* with today - 1 year <= D <= today + 7 days, and today for every other D
\* and for every D that is no calendar date.
C15_SpecificDate ==
  Resolved("specific") =>
    LET D == meta.reply.dateInfo.date
        today == formatDateAsJST(meta.now)
    IN meta.out.date =
         MidnightJST(IF D.kind = "date" /\ D.day >= today - 365 /\ D.day <= today + 7
                     THEN D.day ELSE today)

\* C16: when the collaborator call throws, or its output does not parse
\* into the expected object, extractMetadata returns today with no tags and
\* raises nothing.
C16_MetadataNeverRaises ==
  (meta.op = "extractMetadata" /\ meta.reply.kind # "object") =>
    /\ ~meta.out.raised
    /\ meta.out.date = CurrentDate(meta.now)
    /\ meta.out.tags = {}

\* C17: when the collaborator call of formatTextToBulletPoints throws or
\* gives no text, the function returns its input unchanged and raises
\* nothing.
C17_FormatFallsBackToRawText ==
  (meta.op = "formatTextToBulletPoints" /\ meta.reply.kind \in {"throws", "nostring"}) =>
    /\ ~meta.out.raised
    /\ meta.out.text = meta.text

\* ------------------------------------------------- properties of the frame
\* C18: a merge whose update succeeds leaves the title, the date and the
\* archived flag of the located page as they were, and changes no other page.
C18_MergeChangesContentAndTagsOnly ==
  [][\A p \in RecIds :
       (MergeReturns(p) /\ hist'.calls[Len(hist'.calls)].via = "update") =>
         LET id == procs[p].existing[1].pageId
         IN /\ Len(pages') = Len(pages)
            /\ pages'[id].title = pages[id].title
            /\ pages'[id].date = pages[id].date
            /\ pages'[id].archived = pages[id].archived
            /\ \A i \in PageIds : i # id => pages'[i] = pages[i]]_vars

\* a merge has rewritten the body of a page while the store holds another page
C18_Witness ==
  \E c \in Calls :
    /\ hist.calls[c].via = "update"
    /\ Len(pages) >= 2
    /\ pages[hist.calls[c].pageId].content # <<"a">>

\* SpecFrame: pages with a body or with a blank body are saved under the
\* canonical title of their date, and every mergeDuplicates run goes to its
\* end
NextFrame ==
  \/ /\ ~DedupeBegun
     /\ \E content \in {<<SP>>, <<"a">>}, day \in Days :
          /\ InOrder(CanonicalTitle(day), content, {}, day)
          /\ saveToNotionDiary(1, CanonicalTitle(day), content, {}, day)
  \/ mergeDuplicatesScan
  \/ mergeDuplicatesUpdate
  \/ mergeDuplicatesArchive
  \/ mergeDuplicatesReturn

SpecFrame == Init /\ [][NextFrame]_vars

\* C19: no store call of mergeDuplicates changes the title or the date of a
\* page, and a page that is alone with its title in the scan is left as it
\* was.
C19_DedupeKeepsTitlesDatesAndSingles ==
  [][dd.pc = "loop" =>
       /\ Len(pages') = Len(pages)
       /\ \A i \in PageIds :
            /\ pages'[i].title = pages[i].title
            /\ pages'[i].date = pages[i].date
            /\ (\E g \in 1..Len(dd.groups) :
                  Len(dd.groups[g]) = 1 /\ dd.groups[g][1].pageId = i) =>
                 pages'[i] = pages[i]]_vars

\* one run has archived a duplicate, and a run over a scan that holds a page
\* alone with its title has returned
C19_Witness ==
  \E k1, k2 \in Runs :
    /\ hist.runs[k1].deletedCount >= 1
    /\ hist.runs[k1].post # hist.runs[k1].pre
    /\ hist.runs[k2].outcome = "ok"
    /\ \E g \in 1..Len(hist.runs[k2].groups) : Len(hist.runs[k2].groups[g]) = 1
    /\ hist.runs[k2].post = hist.runs[k2].pre

\* ---------------------------------------------------- properties of the scan
\* the ids of the pages that a scan put into groups
ScannedIds(groups) ==
  UNION {{groups[g][k].pageId : k \in 1..Len(groups[g])} : g \in 1..Len(groups)}

\* C20: the pages that mergeDuplicates groups are all non-archived pages of
\* the store at the scan, however many there are.
C20_ScanIsComplete ==
  dd.pc = "loop" => ScannedIds(dd.groups) = LiveOf(dd.pre)

\* ------------------------------------------------------ fix-diary-dates.mjs
\* queryAllDiaries: one request with page_size 100 and no sort, no cursor is
\* followed: the title and the date of at most ResultCap non-archived pages
FixEntry(id) == [pageId |-> id, title |-> pages[id].title, date |-> pages[id].date]

queryAllDiaries ==
  {{FixEntry(i) : i \in S} :
     S \in {T \in SUBSET LiveIds :
              Cardinality(T) = IF Cardinality(LiveIds) < ResultCap
                               THEN Cardinality(LiveIds) ELSE ResultCap}}

\* the date property the utility writes for a title: the "YYYY-MM-DD" that
\* extractDateFromTitle reads in it, a date without time
FixedDate(title) == [start |-> 24 * TitleDay(title), is_datetime |-> FALSE]

FixCounts(u, s, e) == [updatedCount |-> u, skippedCount |-> s, errorCount |-> e]

\* const pages = await queryAllDiaries()
fixDiaryDatesQuery ==
  /\ meta.op = "none"
  /\ \E found \in queryAllDiaries :
       meta' = [op |-> "fix-diary-dates", now |-> 0, text |-> << >>,
                reply |-> found, out |-> FixCounts(0, 0, 0)]
  /\ UNCHANGED <<pages, recs, procs, dd, hist>>

\* the page of the next turn of the loop (the updates of different pages
\* commute, so the pages are taken in the order of their ids)
NextFixEntry(found) == CHOOSE e \in found : \A f \in found : e.pageId <= f.pageId

\* one turn of the loop: the page is skipped when its date is the date of
\* its title, its date property is rewritten otherwise
fixDiaryDatesPage ==
  /\ meta.op = "fix-diary-dates"
  /\ meta.reply # {}
  /\ LET e == NextFixEntry(meta.reply)
     IN /\ IF e.date = FixedDate(e.title)
          THEN /\ pages' = pages
               /\ meta' = [meta EXCEPT !.reply = @ \ {e}, !.out.skippedCount = @ + 1]
          ELSE /\ ~pages[e.pageId].archived
               /\ pages' = [pages EXCEPT ![e.pageId].date = FixedDate(e.title)]
               /\ meta' = [meta EXCEPT !.reply = @ \ {e}, !.out.updatedCount = @ + 1]
  /\ UNCHANGED <<recs, procs, dd, hist>>

\* updatePageDate throws: the catch block of the loop counts the error
fixDiaryDatesPageFails ==
  /\ meta.op = "fix-diary-dates"
  /\ meta.reply # {}
  /\ LET e == NextFixEntry(meta.reply)
     IN /\ e.date # FixedDate(e.title)
       /\ meta' = [meta EXCEPT !.reply = @ \ {e}, !.out.errorCount = @ + 1]
  /\ UNCHANGED <<pages, recs, procs, dd, hist>>

\* the summary is printed and the utility ends
fixDiaryDatesEnd ==
  /\ meta.op = "fix-diary-dates"
  /\ meta.reply = {}
  /\ meta' = [meta EXCEPT !.op = "fixed"]
  /\ UNCHANGED <<pages, recs, procs, dd, hist>>

\* ------------------------------------------------ properties of the archive
\* a process call, a mergeDuplicates run or the date-repair utility is
\* between its first and its last store call
OperationRunning ==
  \/ \E p \in RecIds : InFlight(p)
  \/ dd.pc # "idle"
  \/ meta.op = "fix-diary-dates"

\* SpecArchive: pages are saved under the canonical title of a day, with
\* the date of that day or with a date that does not parse, then a recording
\* is processed, mergeDuplicates is called once and the date-repair utility
\* is run once, in any order, one operation at a time
NextArchive ==
  \/ /\ ~PipelineBegun /\ ~DedupeBegun /\ meta.op = "none"
     /\ \E tday \in Days, day \in {0} \cup Days :
          /\ day \in {0, tday}
          /\ InOrder(CanonicalTitle(tday), <<"a">>, {}, formatDateAsJST(InputDate(day)))
          /\ saveToNotionDiary(1, CanonicalTitle(tday), <<"a">>, {}, day)
  \/ ~OperationRunning /\ \E day \in Days : processBegin(2, day, {}, <<"b">>)
  \/ processLocate(2)
  \/ processLocateFails(2)
  \/ processMerge(2)
  \/ processMergeFallback(2)
  \/ processMergeFallbackFails(2)
  \/ processCreate(2)
  \/ processFails(2)
  \/ ~OperationRunning /\ hist.runs = << >> /\ mergeDuplicatesScan
  \/ mergeDuplicatesUpdate
  \/ mergeDuplicatesArchive
  \/ mergeDuplicatesReturn
  \/ ~OperationRunning /\ fixDiaryDatesQuery
  \/ fixDiaryDatesPage
  \/ fixDiaryDatesPageFails
  \/ fixDiaryDatesEnd

SpecArchive == Init /\ [][NextArchive]_vars

\* C21: no step removes a page from the store, and a step that archives a
\* page is a deletePage of mergeDuplicates for a page that is not the first
\* of a scanned title group of two or more pages; no step of process, of
\* saveToNotionDiary or of the date-repair utility archives a page.
C21_OnlyDedupeArchivesDuplicates ==
  [][/\ Len(pages') >= Len(pages)
     /\ \A i \in PageIds :
          /\ pages'[i].title = pages[i].title
          /\ (pages'[i].archived # pages[i].archived) =>
               /\ pages'[i].archived
               /\ procs' = procs /\ recs' = recs /\ meta' = meta /\ hist' = hist
               /\ dd.pc = "loop" /\ dd.g <= Len(dd.groups)
               /\ Len(dd.groups[dd.g]) >= 2
               /\ \E k \in 2..Len(dd.groups[dd.g]) :
                    /\ dd.groups[dd.g][k].pageId = i
                    /\ dd.groups[dd.g][k].title = dd.groups[dd.g][1].title
                    /\ dd.groups[dd.g][1].pageId # i]_vars

\* a page is archived while a recording has been processed and the
\* date-repair utility has rewritten a date
C21_Witness ==
  /\ \E i \in PageIds : pages[i].archived
  /\ \E c \in Calls : hist.calls[c].op = "process" /\ hist.calls[c].via = "update"
  /\ meta.op = "fixed"
  /\ meta.out.updatedCount >= 1

\* ------------------------------------------- properties of the recordings
\* the step ends a processing call (process or saveToNotionDiary)
CallEnds == Len(hist'.calls) = Len(hist.calls) + 1

\* C22: a step that ends a processing call whose store write succeeded sets
\* one recording to completed together with the id and the url of the page
\* that the call wrote, both non-empty; no other step gives a recording a
\* notionPageId or a notionPageUrl, so a recording without a successful call
\* has none.
C22_CompletedCarriesWrittenPage ==
  [][LET c == hist'.calls[Len(hist'.calls)]
     IN /\ (CallEnds /\ c.via \in {"create", "update", "fallback"}) =>
             /\ c.pageId \in 1..Len(pages')
             /\ \E r \in RecIds :
                  /\ recs'[r].status = "completed"
                  /\ recs'[r].notionPageId = c.pageId
                  /\ recs'[r].notionPageUrl = PageUrl(c.pageId)
                  /\ recs'[r].notionPageUrl # << >>
                  /\ \A q \in RecIds \ {r} : recs'[q] = recs[q]
        /\ ~(CallEnds /\ c.via \in {"create", "update", "fallback"}) =>
             \A r \in RecIds :
               /\ recs'[r].notionPageId = recs[r].notionPageId
               /\ recs'[r].notionPageUrl = recs[r].notionPageUrl
               /\ recs'[r].status # "completed" \/ recs[r].status = "completed"]_vars

\* one recording is completed with the page its call merged into, and the
\* other, whose only call failed, has no page
C22_Witness ==
  \E r, q \in RecIds :
    /\ recs[r].status = "completed"
    /\ \E c \in Calls : hist.calls[c].via = "update" /\ hist.calls[c].pageId = recs[r].notionPageId
    /\ recs[q].status = "failed"
    /\ recs[q].notionPageId = 0

\* ------------------------------------------------ the ownership of recordings
\* ctx.user.id of a caller
Users == {1, 2}

\* recording.userId: recording r was created by user r
UserIdOf(r) == r

\* the ids a caller can send: those of the recordings and one of no recording
RequestIds == RecIds \cup {Cardinality(RecIds) + 1}

Found_AnyUser(u, id) == id \in RecIds

\* !(!recording || recording.userId !== ctx.user.id)
Found(u, id) == id \in RecIds /\ UserIdOf(id) = u

\* the call and its outcome as the caller sees it: the error code or "OK",
\* and what is returned of the recording
Request(op, u, id, code) ==
  [op |-> op, now |-> 0, text |-> <<u, id>>, reply |-> << >>,
   out |-> [code |-> code,
            recording |-> IF op = "recording.get" /\ code = "OK" THEN <<recs[id]>> ELSE << >>]]

\* recording.get: the recording, or NOT_FOUND
recordingGet(u, id) ==
  /\ meta' = Request("recording.get", u, id,
                     IF Found(u, id) THEN "OK" ELSE "NOT_FOUND")
  /\ UNCHANGED <<pages, recs, procs, dd, hist>>

\* recording.uploadAudio: NOT_FOUND, or the audio is stored under the
\* recording's key and the recording is set to processing
recordingUploadAudio(u, id) ==
  /\ meta' = Request("recording.uploadAudio", u, id,
                     IF Found(u, id) THEN "OK" ELSE "NOT_FOUND")
  /\ recs' = IF Found(u, id) THEN [recs EXCEPT ![id].status = "processing"] ELSE recs
  /\ UNCHANGED <<pages, procs, dd, hist>>

\* recording.process up to its first store call: NOT_FOUND, or the call of
\* processBegin for the recording
recordingProcess(u, id, day, tags, content) ==
  /\ Found(u, id) => procs[id].pc = "idle"
  /\ meta' = Request("recording.process", u, id,
                     IF Found(u, id) THEN "OK" ELSE "NOT_FOUND")
  /\ procs' = IF Found(u, id)
              THEN [procs EXCEPT ![id] =
                      [pc |-> "locate", day |-> day, tags |-> tags, content |-> content,
                       existing |-> << >>, began |-> Len(hist.calls), located |-> TRUE]]
              ELSE procs
  /\ UNCHANGED <<pages, recs, dd, hist>>

\* SpecAccess: the owner of recording 1 saves a page, then any user calls
\* get, uploadAudio and process with any id, and the process calls that
\* began run to their end, one after the other
NextAccess ==
  \/ /\ ~PipelineBegun
     /\ pages = << >>
     /\ meta.op = "none"
     /\ \E day \in Days : saveToNotionDiary(1, CanonicalTitle(day), <<"a">>, {}, day)
  \/ \E u \in Users, id \in RequestIds : recordingGet(u, id)
  \/ \E u \in Users, id \in RequestIds : recordingUploadAudio(u, id)
  \/ \E u \in Users, id \in RequestIds, day \in Days :
       /\ \A q \in RecIds : ~InFlight(q)
       /\ recordingProcess(u, id, day, {}, <<"b">>)
  \/ \E p \in RecIds : processLocate(p)
  \/ \E p \in RecIds : processMerge(p)
  \/ \E p \in RecIds : processCreate(p)
  \/ \E p \in RecIds : processFails(p)

SpecAccess == Init /\ [][NextAccess]_vars

AccessOps == {"recording.get", "recording.uploadAudio", "recording.process"}

\* the step is a call of one of them
AccessCalled ==
  \/ meta'.op # meta.op
  \/ meta'.text # meta.text
  \/ meta'.out # meta.out

\* C23: a call of get, uploadAudio or process by a user who does not own
\* the recording ends with NOT_FOUND, as it does for an id of no recording,
\* and changes no recording, no process call and no page.
C23_ForeignCallerGetsNotFound ==
  [][(meta'.op \in AccessOps /\ AccessCalled) =>
       LET u == meta'.text[1]
           id == meta'.text[2]
       IN (id \notin RecIds \/ UserIdOf(id) # u) =>
            /\ meta'.out.code = "NOT_FOUND"
            /\ meta'.out.recording = << >>
            /\ recs' = recs
            /\ procs' = procs
            /\ pages' = pages
            /\ hist' = hist]_vars

\* a user was refused the process of a recording of another user that is
\* completed with a page in the store
C23_Witness ==
  /\ meta.op = "recording.process"
  /\ meta.text[2] \in RecIds
  /\ IF meta.text[2] \in RecIds
     THEN /\ UserIdOf(meta.text[2]) # meta.text[1]
          /\ recs[meta.text[2]].status = "completed"
          /\ recs[meta.text[2]].notionPageId \in LiveIds
     ELSE FALSE
  /\ meta.out.code = "NOT_FOUND"

\* ------------------------------------------------- titles, character by character
\* ("N" and "K" stand for the two characters of 日記)
DigitChars == <<"0", "1", "2", "3", "4", "5", "6", "7", "8", "9">>
IsDigit(c) == \E n \in 1..10 : DigitChars[n] = c
DigitValue(c) == (CHOOSE n \in 1..10 : DigitChars[n] = c) - 1

\* a number in a template literal: its decimal digits
RECURSIVE Dec(_)
Dec(n) == IF n < 10 THEN <<DigitChars[n + 1]>> ELSE Dec(n \div 10) \o <<DigitChars[(n % 10) + 1]>>

PadStart_None(s, w) == s

\* String.prototype.padStart(w, '0')
RECURSIVE PadStart(_, _)
PadStart(s, w) == IF Len(s) < w THEN PadStart(<<"0">> \o s, w) ELSE s

\* parseInt of a string that begins with a digit
RECURSIVE ParseIntFrom(_, _)
ParseIntFrom(s, acc) ==
  IF s = << >> THEN acc
  ELSE IF ~IsDigit(Head(s)) THEN acc
  ELSE ParseIntFrom(Tail(s), acc * 10 + DigitValue(Head(s)))

ParseInt(s) == ParseIntFrom(s, 0)

\* String.prototype.split(sep) for a one-character separator
RECURSIVE Split(_, _, _)
Split(s, sep, cur) ==
  IF s = << >> THEN <<cur>>
  ELSE IF Head(s) = sep THEN <<cur>> \o Split(Tail(s), sep, << >>)
  ELSE Split(Tail(s), sep, Append(cur, Head(s)))

\* date.toLocaleString('sv-SE', {timeZone: 'Asia/Tokyo'}).split(' ')[0] for
\* an instant of the JST calendar date (Y, M, D): "YYYY-MM-DD"
JstDateString(Y, M, D) ==
  PadStart(Dec(Y), 4) \o <<"-">> \o PadStart(Dec(M), 2) \o <<"-">> \o PadStart(Dec(D), 2)

\* const [year, month, day] = jstDate.split('-');
\* `日記 ${year}/${parseInt(month)}/${parseInt(day)}`
TitleOfDate(jstDate) ==
  LET parts == Split(jstDate, "-", << >>)
  IN <<"N", "K", SP>> \o parts[1] \o <<"/">> \o Dec(ParseInt(parts[2]))
       \o <<"/">> \o Dec(ParseInt(parts[3]))

At(s, i) == IF i \in 1..Len(s) THEN s[i] ELSE ""

DigitsAt(s, i, n) == \A k \in i..(i + n - 1) : IsDigit(At(s, k))

\* \s* from position i: the position of the first character that is no space
RECURSIVE SkipWhite(_, _)
SkipWhite(s, i) == IF IsWhite(At(s, i)) THEN SkipWhite(s, i + 1) ELSE i

\* the length that \d{1,2} takes at i when the character c must follow it
\* (any character when c is ""), 0 when it cannot match
OneOrTwoDigits(s, i, c) ==
  IF DigitsAt(s, i, 2) /\ (c = "" \/ At(s, i + 2) = c) THEN 2
  ELSE IF DigitsAt(s, i, 1) /\ (c = "" \/ At(s, i + 1) = c) THEN 1
  ELSE 0

\* /日記\s*(\d{4})\/(\d{1,2})\/(\d{1,2})/ tried at position i: the three
\* groups, << >> without a match
MatchAt(s, i) ==
  IF At(s, i) # "N" \/ At(s, i + 1) # "K" THEN << >>
  ELSE LET y == SkipWhite(s, i + 2)
           m == y + 5
           mlen == OneOrTwoDigits(s, m, "/")
           d == m + mlen + 1
           dlen == OneOrTwoDigits(s, d, "")
       IN IF DigitsAt(s, y, 4) /\ At(s, y + 4) = "/" /\ mlen > 0 /\ dlen > 0
          THEN <<SubSeq(s, y, y + 3), SubSeq(s, m, m + mlen - 1), SubSeq(s, d, d + dlen - 1)>>
          ELSE << >>

\* extractDateFromTitle: `${year}-${month.padStart(2, '0')}-${day.padStart(2, '0')}`
\* of the first match, << >> for null
extractDateFromTitle(title) ==
  LET hits == {i \in 1..Len(title) : MatchAt(title, i) # << >>}
  IN IF hits = {} THEN << >>
     ELSE LET match == MatchAt(title, CHOOSE i \in hits : \A j \in hits : i <= j)
          IN match[1] \o <<"-">> \o PadStart(match[2], 2) \o <<"-">> \o PadStart(match[3], 2)

\* the calendar dates of the years in which a resolved date can lie
Years == {2025, 2026}
Months == 1..12
DaysIn(Y, M) ==
  IF M = 2 THEN (IF Y % 4 = 0 /\ (Y % 100 # 0 \/ Y % 400 = 0) THEN 29 ELSE 28)
  ELSE IF M \in {4, 6, 9, 11} THEN 30 ELSE 31

\* the title of a date is built as process builds it and read as the
\* date-repair utility reads it
extractDateFromTitleCall ==
  /\ meta.op = "none"
  /\ \E Y \in Years, M \in Months, D \in 1..31 :
       /\ D <= DaysIn(Y, M)
       /\ meta' = [op |-> "extractDateFromTitle", now |-> 0,
                   text |-> TitleOfDate(JstDateString(Y, M, D)),
                   reply |-> <<Y, M, D>>,
                   out |-> extractDateFromTitle(TitleOfDate(JstDateString(Y, M, D)))]
  /\ UNCHANGED <<pages, recs, procs, dd, hist>>

\* SpecTitle: the title of any calendar date is built and read back
NextTitle == extractDateFromTitleCall

SpecTitle == Init /\ [][NextTitle]_vars

\* C24: the title built for a calendar date (Y, M, D), with month and day
\* not zero-padded, is read back by extractDateFromTitle as the zero-padded
\* string Y-MM-DD of that date.
C24_TitleRoundTrip ==
  meta.op = "extractDateFromTitle" =>
    LET Y == meta.reply[1]
        M == meta.reply[2]
        D == meta.reply[3]
    IN /\ Len(meta.out) = 10
       /\ ParseInt(SubSeq(meta.out, 1, 4)) = Y
       /\ meta.out[5] = "-"
       /\ ParseInt(SubSeq(meta.out, 6, 7)) = M
       /\ meta.out[8] = "-"
       /\ ParseInt(SubSeq(meta.out, 9, 10)) = D

\* a title with a one-digit month and a two-digit day was read back
C24_Witness ==
  /\ meta.op = "extractDateFromTitle"
  /\ meta.text = <<"N", "K", SP, "2", "0", "2", "6", "/", "1", "/", "2", "6">>
  /\ meta.out = <<"2", "0", "2", "6", "-", "0", "1", "-", "2", "6">>

\* ------------------------------------------------------- tag lists and unions
\* the tag lists of a recording, of the collaborator and of a page: arrays,
\* in which a tag may occur more than once
MaxTagListLen == 3
TagLists ==
  UNION {[1..n -> {"work", "health"}] : n \in 0..MaxTagListLen}

Elements(list) == {list[k] : k \in 1..Len(list)}

SetAdd_Push(acc, tag) == Append(acc, tag)

\* Set.prototype.add: a value that the set holds is not added again, and the
\* set keeps the order of insertion
SetAdd(acc, tag) == IF tag \in Elements(acc) THEN acc ELSE Append(acc, tag)

\* new Set(list), and allTags.add(tag) for each tag of list, from acc on
RECURSIVE AddAll(_, _)
AddAll(acc, list) ==
  IF list = << >> THEN acc ELSE AddAll(SetAdd(acc, Head(list)), Tail(list))

\* process: Array.from(new Set([...userTags, ...metadata.tags]))
CombinedTags(userTags, extracted) == AddAll(<< >>, userTags \o extracted)

\* mergeDuplicates: for (const entry of entries) for (const tag of
\* entry.tags) allTags.add(tag); Array.from(allTags)
RECURSIVE GroupTags(_, _)
GroupTags(acc, tagLists) ==
  IF tagLists = << >> THEN acc
  ELSE GroupTags(AddAll(acc, Head(tagLists)), Tail(tagLists))

\* the union of A and B, of B and A, and of A and A, at the call site of
\* process
combineTags ==
  /\ meta.op = "none"
  /\ \E A \in TagLists, B \in TagLists :
       meta' = [op |-> "tags", now |-> 0, text |-> A, reply |-> B,
                out |-> [ab |-> CombinedTags(A, B), ba |-> CombinedTags(B, A),
                         aa |-> CombinedTags(A, A), site |-> "process"]]
  /\ UNCHANGED <<pages, recs, procs, dd, hist>>

\* the same unions for a title group of two entries in mergeDuplicates
mergeGroupTags ==
  /\ meta.op = "none"
  /\ \E A \in TagLists, B \in TagLists :
       meta' = [op |-> "tags", now |-> 0, text |-> A, reply |-> B,
                out |-> [ab |-> GroupTags(<< >>, <<A, B>>), ba |-> GroupTags(<< >>, <<B, A>>),
                         aa |-> GroupTags(<< >>, <<A, A>>), site |-> "mergeDuplicates"]]
  /\ UNCHANGED <<pages, recs, procs, dd, hist>>

\* SpecUnion: the tag union of any two tag lists is computed at either site
NextUnion ==
  \/ combineTags
  \/ mergeGroupTags

SpecUnion == Init /\ [][NextUnion]_vars

NoTagTwice(list) == Cardinality(Elements(list)) = Len(list)

\* C25: at both sites the union of tag lists A and B holds the same tags as
\* the union of B and A, the union of A with itself holds the tags of A, and
\* no result holds a tag twice.
C25_TagUnionIsCommutativeAndIdempotent ==
  meta.op = "tags" =>
    /\ Elements(meta.out.ab) = Elements(meta.out.ba)
    /\ Elements(meta.out.ab) = Elements(meta.text) \cup Elements(meta.reply)
    /\ Elements(meta.out.aa) = Elements(meta.text)
    /\ NoTagTwice(meta.out.ab)
    /\ NoTagTwice(meta.out.ba)
    /\ NoTagTwice(meta.out.aa)

\* two lists that share a tag, one of which holds a tag twice, were united
\* in mergeDuplicates, and the two orders gave different arrays
C25_Witness ==
  /\ meta.op = "tags"
  /\ meta.out.site = "mergeDuplicates"
  /\ ~NoTagTwice(meta.text)
  /\ Elements(meta.text) \cap Elements(meta.reply) # {}
  /\ meta.out.ab # meta.out.ba

\* ----------------------------------------------------------- updatePage (notion.ts)
\* the params of a call: each of title, content, tags and date is given
\* (<<value>>) or undefined (<< >>)
UpdateParams ==
  [title : {<< >>} \cup {<<t>> : t \in Titles},
   content : {<< >>, <<<<"b">>>>},
   tags : {<< >>, <<{"work"}>>},
   date : {<< >>} \cup {<<MidnightJST(d)>> : d \in Days}]

\* the properties object of the request: the properties named in params
Properties(params) ==
  {name \in {"title", "content", "tags", "date"} : params[name] # << >>}

PatchedPage_AllProperties(page, params) ==
  [title |-> IF params.title # << >> THEN params.title[1] ELSE << >>,
   content |-> IF params.content # << >> THEN params.content[1] ELSE << >>,
   tags |-> IF params.tags # << >> THEN params.tags[1] ELSE {},
   date |-> IF params.date # << >> THEN RestDate(params.date[1]) ELSE RestDate(Now),
   archived |-> page.archived]

\* PATCH /v1/pages/{id} {properties}: the store replaces the properties of
\* the request and keeps the others
PatchedPage(page, params) ==
  [title |-> IF "title" \in Properties(params) THEN params.title[1] ELSE page.title,
   content |-> IF "content" \in Properties(params) THEN params.content[1] ELSE page.content,
   tags |-> IF "tags" \in Properties(params) THEN params.tags[1] ELSE page.tags,
   date |-> IF "date" \in Properties(params) THEN RestDate(params.date[1]) ELSE page.date,
   archived |-> page.archived]

AdapterOutcome_NoKeyCheck(key, ok) ==
  IF ok THEN [raised |-> FALSE, error |-> "", requests |-> 1, key |-> key]
  ELSE [raised |-> TRUE, error |-> "store", requests |-> 1, key |-> key]

\* the first lines of each function of the adapter and its one fetch:
\* without NOTION_API_KEY it throws before any request; with it, one request
\* is sent, and the function throws when the response is not ok
AdapterOutcome(key, ok) ==
  IF ~key THEN [raised |-> TRUE, error |-> "configuration", requests |-> 0, key |-> key]
  ELSE IF ok THEN [raised |-> FALSE, error |-> "", requests |-> 1, key |-> key]
  ELSE [raised |-> TRUE, error |-> "store", requests |-> 1, key |-> key]

\* updatePage(pageId, params)
updatePage ==
  /\ meta.op = "none"
  /\ \E id \in LiveIds, params \in UpdateParams, key \in BOOLEAN, ok \in BOOLEAN :
       LET out == AdapterOutcome(key, ok)
       IN /\ pages' = IF out.raised THEN pages
                      ELSE [pages EXCEPT ![id] = PatchedPage(@, params)]
          /\ meta' = [op |-> "updatePage", now |-> 0, text |-> <<id>>, reply |-> params,
                      out |-> out]
  /\ UNCHANGED <<recs, procs, dd, hist>>

\* SpecPatch: pages with tags and a body are saved, then updatePage is
\* called once with any params
NextPatch ==
  \/ /\ meta.op = "none"
     /\ \E day \in Days, tags \in {{}, {"health"}} :
          /\ InOrder(CanonicalTitle(day), <<"a">>, tags, day)
          /\ saveToNotionDiary(1, CanonicalTitle(day), <<"a">>, tags, day)
  \/ updatePage

SpecPatch == Init /\ [][NextPatch]_vars

\* C26: after a call of updatePage, each of title, content, tags and date
\* that the params do not give has on the page the value it had before, and
\* no other page has changed.
C26_UpdateIsPartial ==
  [][(meta.op = "none" /\ meta'.op = "updatePage") =>
       LET id == meta'.text[1]
           params == meta'.reply
       IN /\ Len(pages') = Len(pages)
          /\ \A i \in PageIds : i # id => pages'[i] = pages[i]
          /\ params.title = << >> => pages'[id].title = pages[id].title
          /\ params.content = << >> => pages'[id].content = pages[id].content
          /\ params.tags = << >> => pages'[id].tags = pages[id].tags
          /\ params.date = << >> => pages'[id].date = pages[id].date
          /\ pages'[id].archived = pages[id].archived]_vars

\* a call that gave the content only has rewritten the body of a page that
\* has tags and a date other than today's, next to another page
C26_Witness ==
  /\ meta.op = "updatePage"
  /\ ~meta.out.raised
  /\ Properties(meta.reply) = {"content"}
  /\ Len(pages) >= 2
  /\ pages[meta.text[1]].content = <<"b">>
  /\ pages[meta.text[1]].tags = {"health"}
  /\ DatePart(pages[meta.text[1]].date) # formatDateAsJST(Now)

\* ------------------------------------- the other functions of the adapter
\* saveToNotion(params) of notion.ts
saveToNotion ==
  /\ meta.op = "none"
  /\ Len(pages) < MaxPages
  /\ \E day \in Days, key \in BOOLEAN, ok \in BOOLEAN :
       LET out == AdapterOutcome(key, ok)
       IN /\ pages' = IF out.raised THEN pages
                      ELSE CreatePage(CanonicalTitle(day), <<"b">>, {},
                                      RestDate(MidnightJST(day)))
          /\ meta' = [op |-> "saveToNotion", now |-> 0, text |-> <<day>>, reply |-> << >>,
                      out |-> out]
  /\ UNCHANGED <<recs, procs, dd, hist>>

\* queryDiaryEntries()
queryDiaryEntriesCall ==
  /\ meta.op = "none"
  /\ \E entries \in queryDiaryEntries, key \in BOOLEAN, ok \in BOOLEAN :
       LET out == AdapterOutcome(key, ok)
       IN meta' = [op |-> "queryDiaryEntries", now |-> 0, text |-> << >>,
                   reply |-> IF out.raised THEN << >> ELSE entries, out |-> out]
  /\ UNCHANGED <<pages, recs, procs, dd, hist>>

\* deletePage(pageId)
deletePage ==
  /\ meta.op = "none"
  /\ \E id \in LiveIds, key \in BOOLEAN, ok \in BOOLEAN :
       LET out == AdapterOutcome(key, ok)
       IN /\ pages' = IF out.raised THEN pages ELSE ArchivePage(id)
          /\ meta' = [op |-> "deletePage", now |-> 0, text |-> <<id>>, reply |-> << >>,
                      out |-> out]
  /\ UNCHANGED <<recs, procs, dd, hist>>

\* SpecCredential: pages are saved, then one function of the adapter is
\* called, with or without the credential in the environment
NextCredential ==
  \/ /\ meta.op = "none"
     /\ \E day \in Days :
          /\ InOrder(CanonicalTitle(day), <<"a">>, {}, day)
          /\ saveToNotionDiary(1, CanonicalTitle(day), <<"a">>, {}, day)
  \/ saveToNotion
  \/ queryDiaryEntriesCall
  \/ updatePage
  \/ deletePage

SpecCredential == Init /\ [][NextCredential]_vars

AdapterOps == {"saveToNotion", "queryDiaryEntries", "updatePage", "deletePage"}

\* C27: a call of saveToNotion, queryDiaryEntries, updatePage or deletePage
\* without NOTION_API_KEY throws the configuration error, sends no request
\* to the store and leaves the store as it was; until such a call nothing
\* has failed.
C27_MissingCredentialFailsAtCall ==
  [][/\ (meta.op = "none" /\ meta'.op \in AdapterOps /\ ~meta'.out.key) =>
          /\ meta'.out.raised
          /\ meta'.out.error = "configuration"
          /\ meta'.out.requests = 0
          /\ pages' = pages
     /\ meta.op = "none" => \A r \in RecIds : recs[r].status # "failed"]_vars

\* deletePage was called without the credential for a page of the store
C27_Witness ==
  /\ meta.op = "deletePage"
  /\ ~meta.out.key
  /\ meta.out.error = "configuration"
  /\ Len(pages) >= 2

\* ------------------------------------------------- formatDateAsJST (notion.ts)
\* the offsets from UTC, in hours, of the timezone of the host
HostOffsets == {0 - 8, 0, 9}

\* the instants handed to the function: every hour of the modelled days
Instants == 0..(24 * (MaxDay + 1))

\* the calendar day and the hour of an instant in UTC
UtcDay(t) == t \div 24
UtcHour(t) == t % 24

\* date.toLocaleString('sv-SE', {timeZone: 'Asia/Tokyo'}).split(' ')[0] on a
\* host of any timezone: the timeZone option fixes the zone of the result
formatDateAsJSTCall ==
  /\ meta.op = "none"
  /\ \E t \in Instants, host \in HostOffsets :
       meta' = [op |-> "formatDateAsJST", now |-> t, text |-> <<host>>, reply |-> << >>,
                out |-> formatDateAsJST(t)]
  /\ UNCHANGED <<pages, recs, procs, dd, hist>>

\* SpecJST: formatDateAsJST is called for any instant on any host
NextJST == formatDateAsJSTCall

SpecJST == Init /\ [][NextJST]_vars

\* C28: for every instant and every host timezone, formatDateAsJST gives the
\* calendar date of the instant in JST: the UTC calendar day when the UTC
\* hour is before 15:00, the next day from 15:00 UTC on.
C28_JstCalendarDate ==
  meta.op = "formatDateAsJST" =>
    meta.out = IF UtcHour(meta.now) >= 15 THEN UtcDay(meta.now) + 1 ELSE UtcDay(meta.now)

\* 15:00 UTC of a day was formatted on a host west of UTC as the next day
C28_Witness ==
  /\ meta.op = "formatDateAsJST"
  /\ UtcHour(meta.now) = 15
  /\ meta.text[1] < 0
  /\ meta.out = UtcDay(meta.now) + 1

\* ---------------------------------------------- properties of the run order
\* SpecOrder: as many pages as one query returns, with different bodies,
\* are saved under the canonical title of their date, then mergeDuplicates is called, and called again
\* after a run that ended at a failed updatePage or deletePage
NextOrder ==
  \/ /\ ~DedupeBegun
     /\ Len(pages) < ResultCap
     /\ \E content \in {<<"a">>, <<"b">>}, day \in Days :
          /\ InOrder(CanonicalTitle(day), content, {}, day)
          /\ saveToNotionDiary(1, CanonicalTitle(day), content, {}, day)
  \/ /\ IF hist.runs = << >> THEN TRUE ELSE hist.runs[Len(hist.runs)].outcome = "error"
     /\ mergeDuplicatesScan
  \/ mergeDuplicatesUpdate
  \/ mergeDuplicatesArchive
  \/ mergeDuplicatesReturn
  \/ dd.pc = "loop" /\ mergeDuplicatesThrows

SpecOrder == Init /\ [][NextOrder]_vars

\* the step archives page i
Archives(i) == pages'[i].archived /\ ~pages[i].archived

\* C29: a page of a title group is archived only when the master of the
\* group holds the merged content and the merged tags that the update wrote;
\* when the update of a group fails the run ends and no page of the group is
\* archived; and every body of an archived page is in a non-archived page.
C29_ArchiveFollowsMasterUpdate ==
  [][/\ \A i \in PageIds : Archives(i) =>
          LET group == dd.groups[dd.g]
              m == group[1].pageId
          IN /\ dd.mergedCount >= 1
             /\ ~pages[m].archived
             /\ \A k \in 1..Len(group) :
                  Trim(group[k].content) # << >> =>
                    Contains(pages[m].content, group[k].content)
             /\ \A k \in 1..Len(group) : group[k].tags \subseteq pages[m].tags
     /\ (dd.pc = "loop" /\ dd.d = 0 /\ dd'.pc = "idle"
           /\ hist'.runs[Len(hist'.runs)].outcome = "error") =>
          /\ pages' = pages
          /\ \A k \in 1..Len(dd.groups[dd.g]) : ~pages'[dd.groups[dd.g][k].pageId].archived
     /\ \A i \in 1..Len(pages') :
          (pages'[i].archived /\ Trim(pages'[i].content) # << >>) =>
            \E j \in 1..Len(pages') :
              ~pages'[j].archived /\ Contains(pages'[j].content, pages'[i].content)]_vars

\* one run ended at the failed update of a group with nothing archived, and
\* another archived a page whose body the master had not held before
C29_Witness ==
  \E k1, k2 \in Runs :
    /\ hist.runs[k1].outcome = "error"
    /\ hist.runs[k1].groups # << >>
    /\ hist.runs[k1].mergedCount = 0
    /\ hist.runs[k1].post = hist.runs[k1].pre
    /\ hist.runs[k2].deletedCount >= 1
    /\ \E i \in LiveOf(hist.runs[k2].pre) :
         /\ hist.runs[k2].post[i].archived
         /\ \A j \in LiveOf(hist.runs[k2].post) :
              ~Contains(hist.runs[k2].pre[j].content, hist.runs[k2].pre[i].content)

\* ----------------------------------------- properties of concurrent processing
\* the body that the process call of recording p brings
NewContent(p) == IF p = 1 THEN <<"b">> ELSE <<"c">>

\* the collaborator of the merge answered with the located content followed
\* by the new content
JoinedReply(p) ==
  LET existing == procs[p].existing[1]
  IN pages'[recs'[p].notionPageId].content
       = existing.content \o <<NL, NL>> \o procs[p].content

\* SpecConcurrent: a page is saved under the canonical title of a day, the
\* two recordings are processed in any interleaving, and the collaborator of
\* the merge joins the two bodies it is given
NextConcurrent ==
  \/ /\ ~PipelineBegun
     /\ pages = << >>
     /\ \E day \in Days : saveToNotionDiary(1, CanonicalTitle(day), <<"a">>, {}, day)
  \/ \E p \in RecIds, day \in Days : processBegin(p, day, {}, NewContent(p))
  \/ \E p \in RecIds : processLocate(p)
  \/ \E p \in RecIds : processMerge(p) /\ JoinedReply(p)
  \/ \E p \in RecIds : processCreate(p)

SpecConcurrent == Init /\ [][NextConcurrent]_vars

\* C30: when two process calls for the same day, each of which located the
\* page of that day, have both completed, in whatever interleaving, the new
\* content of each is contained in a non-archived page.
C30_ConcurrentMergesKeepBothContents ==
  (/\ \A p \in RecIds : procs[p].pc = "done" /\ procs[p].existing # << >>
   /\ \A p, q \in RecIds : procs[p].day = procs[q].day
   /\ \A p \in RecIds : recs[p].status = "completed") =>
    \A p \in RecIds :
      \E i \in LiveIds : Contains(pages[i].content, procs[p].content)

\* ------------------------------- properties of processing during a dedupe run
\* SpecInterleave: two pages are saved under the canonical title of one day,
\* then recording 2 is processed once and mergeDuplicates is called once, in
\* any interleaving; every store call succeeds and the collaborator of the
\* merge joins the two bodies it is given
NextInterleave ==
  \/ /\ ~PipelineBegun /\ ~DedupeBegun
     /\ Len(pages) < ResultCap
     /\ \E day \in Days, date \in Days :
          /\ \A i \in PageIds : pages[i].title = CanonicalTitle(day)
          /\ \A i \in PageIds : DatePart(pages[i].date) <= date
          /\ saveToNotionDiary(1, CanonicalTitle(day), <<"a">>, {}, date)
  \/ \E day \in Days : processBegin(2, day, {}, NewContent(2))
  \/ processLocate(2)
  \/ processMerge(2) /\ JoinedReply(2)
  \/ processCreate(2)
  \/ hist.runs = << >> /\ mergeDuplicatesScan
  \/ mergeDuplicatesUpdate
  \/ mergeDuplicatesArchive
  \/ mergeDuplicatesReturn

SpecInterleave == Init /\ [][NextInterleave]_vars

\* C31: when one mergeDuplicates run and one process call that writes to a
\* page of a title of the run (by a merge or by a create) have both
\* completed, in whatever interleaving, the content that the process call
\* brought is contained in a non-archived page.
C31_DedupeKeepsConcurrentWrite ==
  (/\ procs[2].pc = "done"
   /\ recs[2].status = "completed"
   /\ dd.pc = "idle"
   /\ \E k \in Runs :
        /\ hist.runs[k].outcome = "ok"
        /\ \E g \in 1..Len(hist.runs[k].groups) :
             /\ Len(hist.runs[k].groups[g]) > 1
             /\ hist.runs[k].groups[g][1].title = CanonicalTitle(procs[2].day)) =>
    \E i \in LiveIds : Contains(pages[i].content, procs[2].content)

\* ------------------------------------------ properties of overlapping dedupe runs
\* A second mergeDuplicates call in flight beside the one of dd: the mutation
\* holds no lock, so the server runs the same handler for both requests. Its
\* groups are in meta.reply and its position and counts in meta.out.
OtherRun(groups, g, d, mergedCount, deletedCount) ==
  [op |-> "mergeDuplicates", now |-> 0, text |-> << >>, reply |-> groups,
   out |-> [g |-> g, d |-> d, mergedCount |-> mergedCount, deletedCount |-> deletedCount]]

\* const allEntries = await queryDiaryEntries(); group by title
otherMergeDuplicatesScan ==
  /\ meta.op = "none"
  /\ \E entries \in queryDiaryEntries :
       meta' = OtherRun(GroupsOf(entries), NextDup(GroupsOf(entries), 1), 0, 0, 0)
  /\ UNCHANGED <<pages, recs, procs, dd, hist>>

\* await updatePage(masterEntry.pageId, {content, tags}); mergedCount++
otherMergeDuplicatesUpdate ==
  /\ meta.op = "mergeDuplicates"
  /\ meta.out.g <= Len(meta.reply)
  /\ meta.out.d = 0
  /\ LET group == meta.reply[meta.out.g]
     IN /\ ~pages[group[1].pageId].archived
        /\ pages' = UpdateContentTags(group[1].pageId, MergedContent(group), MergedTags(group))
  /\ meta' = [meta EXCEPT !.out.mergedCount = @ + 1, !.out.d = 2]
  /\ UNCHANGED <<recs, procs, dd, hist>>

\* await deletePage(duplicate.pageId); deletedCount++
otherMergeDuplicatesArchive ==
  /\ meta.op = "mergeDuplicates"
  /\ meta.out.g <= Len(meta.reply)
  /\ meta.out.d >= 2
  /\ LET group == meta.reply[meta.out.g]
     IN /\ pages' = ArchivePage(group[meta.out.d].pageId)
        /\ meta' = IF meta.out.d < Len(group)
                   THEN [meta EXCEPT !.out.deletedCount = @ + 1, !.out.d = @ + 1]
                   ELSE [meta EXCEPT !.out.deletedCount = @ + 1, !.out.d = 0,
                                     !.out.g = NextDup(meta.reply, meta.out.g + 1)]
  /\ UNCHANGED <<recs, procs, dd, hist>>

\* return {success: true, mergedCount, deletedCount}
otherMergeDuplicatesReturn ==
  /\ meta.op = "mergeDuplicates"
  /\ meta.out.g > Len(meta.reply)
  /\ meta' = [meta EXCEPT !.op = "mergeDuplicates returned"]
  /\ UNCHANGED <<pages, recs, procs, dd, hist>>

\* updatePage throws for a page that is archived: the call ends with the error
otherMergeDuplicatesThrows ==
  /\ meta.op = "mergeDuplicates"
  /\ meta.out.g <= Len(meta.reply)
  /\ meta.out.d = 0
  /\ pages[meta.reply[meta.out.g][1].pageId].archived
  /\ meta' = [meta EXCEPT !.op = "mergeDuplicates failed"]
  /\ UNCHANGED <<pages, recs, procs, dd, hist>>

\* SpecOverlap: as many pages as one query returns are saved under the
\* canonical title of a day, with any dates, then mergeDuplicates is called
\* twice and the two calls run in any interleaving
NextOverlap ==
  \/ /\ ~DedupeBegun /\ meta.op = "none"
     /\ Len(pages) < ResultCap
     /\ \E day \in Days, date \in Days, content \in {<<"a">>, <<"b">>} :
          /\ InOrder(CanonicalTitle(day), content, {}, date)
          /\ saveToNotionDiary(1, CanonicalTitle(day), content, {}, date)
  \/ hist.runs = << >> /\ mergeDuplicatesScan
  \/ mergeDuplicatesUpdate
  \/ mergeDuplicatesArchive
  \/ mergeDuplicatesReturn
  \/ /\ dd.pc = "loop" /\ dd.g <= Len(dd.groups) /\ dd.d = 0
     /\ pages[dd.groups[dd.g][1].pageId].archived
     /\ mergeDuplicatesThrows
  \/ otherMergeDuplicatesScan
  \/ otherMergeDuplicatesUpdate
  \/ otherMergeDuplicatesArchive
  \/ otherMergeDuplicatesReturn
  \/ otherMergeDuplicatesThrows

SpecOverlap == Init /\ [][NextOverlap]_vars

\* C32: when two mergeDuplicates runs that overlapped have both returned,
\* every title of the store still has a non-archived page, and one whose
\* content contains every body that a page of the title had before the runs.
C32_OverlappingRunsKeepEveryTitle ==
  (/\ meta.op = "mergeDuplicates returned"
   /\ dd.pc = "idle"
   /\ hist.runs # << >>
   /\ \A k \in Runs : hist.runs[k].outcome = "ok") =>
    LET pre == hist.runs[1].pre
    IN \A t \in LiveTitles(pre) :
         \E s \in LiveWithTitle(pages, t) :
           \A i \in LiveWithTitle(pre, t) :
             Trim(pre[i].content) # << >> => Contains(pages[s].content, pre[i].content)

\* ------------------------------------ properties of the degraded merge reply
\* the answers of the merge collaborator that carry no usable text: no
\* choice or a content that is no string, and the empty string
DegradedReplies == {<<"none">>, <<"text", << >>>>}

\* the collaborator of the merge of call p gave one of them
DegradedReply(p) ==
  LET existing == procs[p].existing[1]
  IN \E reply \in DegradedReplies :
       pages'[recs'[p].notionPageId].content
         = MergedByReply(reply, existing.content, procs[p].content)

\* SpecDegraded: a page is saved under the canonical title of a day, then
\* the recordings are processed, and the collaborator of the merge gives no
\* usable text
NextDegraded ==
  \/ /\ ~PipelineBegun
     /\ pages = << >>
     /\ \E day \in Days, content \in {<< >>, <<"a">>} :
          saveToNotionDiary(1, CanonicalTitle(day), content, {}, day)
  \/ \E p \in RecIds, day \in Days, content \in ProcInputBodies :
       processBegin(p, day, {}, content)
  \/ \E p \in RecIds : processLocate(p)
  \/ \E p \in RecIds : processMerge(p) /\ DegradedReply(p)
  \/ \E p \in RecIds : processMergeFallback(p) /\ DegradedReply(p)
  \/ \E p \in RecIds : processCreate(p)

SpecDegraded == Init /\ [][NextDegraded]_vars

\* C33: when the collaborator of the merge gives no choice, no text or the
\* empty text, the content that mergeWithExistingDiary writes is the located
\* content, a blank line and the new content, and it is not empty when the
\* located page had content.
C33_DegradedMergeConcatenates ==
  [][\A p \in RecIds : MergeReturns(p) =>
       LET existing == procs[p].existing[1]
           written == pages'[recs'[p].notionPageId].content
       IN /\ written = existing.content \o <<NL, NL>> \o procs[p].content
          /\ existing.content # << >> => written # << >>]_vars

\* ------------------------------------------- properties of a failed process
\* SpecFailure: recording 1 saves a page, then each recording is processed
\* once, one call after the other, and any step of a call may throw
NextFailure ==
  \/ /\ ~PipelineBegun
     /\ pages = << >>
     /\ \E day \in Days : saveToNotionDiary(1, CanonicalTitle(day), <<"a">>, {}, day)
  \/ \E p \in RecIds, day \in Days :
       /\ \A q \in RecIds : ~InFlight(q)
       /\ processBegin(p, day, {}, <<"b">>)
  \/ \E p \in RecIds : processLocate(p)
  \/ \E p \in RecIds : processLocateFails(p)
  \/ \E p \in RecIds : processMerge(p)
  \/ \E p \in RecIds : processMergeFallback(p)
  \/ \E p \in RecIds : processMergeFallbackFails(p)
  \/ \E p \in RecIds : processCreate(p)
  \/ \E p \in RecIds : processFails(p)

SpecFailure == Init /\ [][NextFailure]_vars

\* the step in which process call p ends in its catch block
ProcessCaught(p) ==
  /\ InFlight(p)
  /\ procs'[p].pc = "done"
  /\ hist'.calls[Len(hist'.calls)].via \in {"failed", "fallback_failed"}

\* C34: when a step of process throws after the precondition checks, the
\* recording becomes failed with the message of the error as errorMessage,
\* its notionPageId and notionPageUrl stay as they were, the other recordings
\* are untouched and the call ends with INTERNAL_SERVER_ERROR; when the
\* step is the transcription, the store is left as it was.
C34_FailureMarksRecordingFailed ==
  [][\A p \in RecIds : ProcessCaught(p) =>
       /\ recs'[p].status = "failed"
       /\ recs'[p].errorMessage = <<ThrownMessage(procs[p].pc)>>
       /\ recs'[p].notionPageId = recs[p].notionPageId
       /\ recs'[p].notionPageUrl = recs[p].notionPageUrl
       /\ \A q \in RecIds \ {p} : recs'[q] = recs[q]
       /\ hist'.calls[Len(hist'.calls)].code = "INTERNAL_SERVER_ERROR"
       /\ procs[p].pc = "locate" => pages' = pages]_vars

\* the recording that had saved a page failed at the transcription and kept
\* its page, and the other failed at the create of the merge fallback
C34_Witness ==
  /\ recs[1].status = "failed"
  /\ recs[1].notionPageId \in LiveIds
  /\ recs[1].errorMessage = <<"Transcription failed">>
  /\ recs[2].status = "failed"
  /\ recs[2].errorMessage = <<"Notion API error">>
  /\ \E c \in Calls : hist.calls[c].via = "fallback_failed"

\* --------------------------------------------- properties of a failed locate
\* the locate of call p has failed and the call is at its write
LocateFailed(p) == procs[p].pc = "write" /\ ~procs[p].located

\* C35: when the search or the fetch of the locate fails or prints what
\* cannot be parsed, findExistingDiaryByDate returns none and the call goes
\* on; its write is then a create, which adds a page with the canonical
\* title and the new content and changes no other page, whether or not a
\* page with that title is already in the store.
C35_FailedLocateLeadsToCreate ==
  [][\A p \in RecIds :
       /\ (procs[p].pc = "locate" /\ ~procs'[p].located) =>
            /\ procs'[p].pc = "write"
            /\ procs'[p].existing = << >>
            /\ recs' = recs /\ pages' = pages
       /\ (LocateFailed(p) /\ pages' # pages) =>
            /\ Len(pages') = Len(pages) + 1
            /\ \A i \in PageIds : pages'[i] = pages[i]
            /\ pages'[Len(pages')].title = CanonicalTitle(procs[p].day)
            /\ pages'[Len(pages')].content = procs[p].content
            /\ ~pages'[Len(pages')].archived
            /\ recs'[p].status = "completed"
            /\ recs'[p].notionPageId = Len(pages')]_vars

\* a call whose locate failed has created a second page with the title of a
\* page that was in the store
C35_Witness ==
  \E c \in Calls :
    /\ hist.calls[c].op = "process"
    /\ hist.calls[c].via = "create"
    /\ ~hist.calls[c].ok
    /\ hist.calls[c].n = 2

\* ------------------------------------------- properties of the date range
\* C36: whatever the collaborator answers (no date, a specific date string,
\* a relative number of days, or text that does not parse), a date that
\* extractMetadata returns is not before today minus one year and not after
\* today plus seven days, today being midnight JST of the day of the call.
C36_DateWithinRange ==
  (meta.op = "extractMetadata" /\ ~meta.out.raised) =>
    /\ meta.out.date >= MidnightJST(formatDateAsJST(meta.now)) - 365 * 24
    /\ meta.out.date <= MidnightJST(formatDateAsJST(meta.now)) + 7 * 24

\* a specific date more than seven days ahead was resolved to today
C36_Witness ==
  /\ Resolved("specific")
  /\ meta.reply.dateInfo.date.kind = "date"
  /\ meta.reply.dateInfo.date.day > formatDateAsJST(meta.now) + 7
  /\ meta.out.date = MidnightJST(formatDateAsJST(meta.now))

\* ----------------------------------------------- the titles of the three paths
\* the calendar date of day n of month M of year Y, n counted on from the
\* first of the month in either direction
RECURSIVE Civil(_, _, _)
Civil(Y, M, n) ==
  IF n < 1
  THEN (IF M = 1 THEN Civil(Y - 1, 12, n + 31) ELSE Civil(Y, M - 1, n + DaysIn(Y, M - 1)))
  ELSE IF n > DaysIn(Y, M)
       THEN (IF M = 12 THEN Civil(Y + 1, 1, n - 31) ELSE Civil(Y, M + 1, n - DaysIn(Y, M)))
       ELSE <<Y, M, n>>

\* the days a resolved date can lie on: a year back and a week ahead
ResolvedDays == (1 - YearDays)..(MaxDay + WeekDays)

\* routers.ts: toLocaleString('sv-SE', {timeZone: 'Asia/Tokyo'}), split, and
\* `日記 ${year}/${parseInt(month)}/${parseInt(day)}`: the same lines in
\* findExistingDiaryByDate, in the create path of process and in the
\* fallback of mergeWithExistingDiary
JstTitle(t) ==
  LET c == Civil(2026, 1, formatDateAsJST(t))
  IN TitleOfDate(JstDateString(c[1], c[2], c[3]))

\* the other revision of the router:
\* `日記 ${date.getFullYear()}/${date.getMonth() + 1}/${date.getDate()}`,
\* the getters of the host's timezone, in the same three places
HostLocalTitle(t, host) ==
  LET c == Civil(2026, 1, (t + host) \div 24)
  IN <<"N", "K", SP>> \o Dec(c[1]) \o <<"/">> \o Dec(c[2]) \o <<"/">> \o Dec(c[3])

TitleCall(revision, t, host, locate, create, fallback) ==
  [op |-> "canonical title", now |-> t, text |-> <<host>>, reply |-> <<revision>>,
   out |-> [locate |-> locate, create |-> create, fallback |-> fallback]]

\* the three paths of routers.ts compute the title of a resolved date
canonicalTitles ==
  /\ meta.op = "none"
  /\ \E d \in ResolvedDays, host \in HostOffsets :
       meta' = TitleCall("routers.ts", MidnightJST(d), host, JstTitle(MidnightJST(d)),
                         JstTitle(MidnightJST(d)), JstTitle(MidnightJST(d)))
  /\ UNCHANGED <<pages, recs, procs, dd, hist>>

\* the three paths of the other revision compute it
canonicalTitlesHostLocal ==
  /\ meta.op = "none"
  /\ \E d \in ResolvedDays, host \in HostOffsets :
       meta' = TitleCall("host-local", MidnightJST(d), host,
                         HostLocalTitle(MidnightJST(d), host),
                         HostLocalTitle(MidnightJST(d), host),
                         HostLocalTitle(MidnightJST(d), host))
  /\ UNCHANGED <<pages, recs, procs, dd, hist>>

\* SpecPaths: the title of any resolved date is computed on any host, by
\* either revision of the router
NextPaths ==
  \/ canonicalTitles
  \/ canonicalTitlesHostLocal

SpecPaths == Init /\ [][NextPaths]_vars

\* C37: for every resolved date and every host timezone, the title that the
\* locate, the create and the merge fallback compute is one string, and it
\* shows the year, the month and the day of the date in JST.
C37_PathsAgreeOnJstTitle ==
  meta.op = "canonical title" =>
    LET c == Civil(2026, 1, formatDateAsJST(meta.now))
    IN /\ meta.out.locate = meta.out.create
       /\ meta.out.fallback = meta.out.create
       /\ meta.out.create
            = <<"N", "K", SP>> \o Dec(c[1]) \o <<"/">> \o Dec(c[2]) \o <<"/">> \o Dec(c[3])

\* --------------------------------------------- properties of the master
\* SpecMaster: as many pages as one query returns, with a body or a blank
\* body, are saved under any title with any date, then mergeDuplicates is
\* called once and runs to its end
NextMaster ==
  \/ /\ ~DedupeBegun
     /\ Len(pages) < ResultCap
     /\ \E title \in Titles, content \in {<<SP>>, <<"a">>, <<"b">>}, day \in Days :
          /\ InOrder(title, content, {}, day)
          /\ saveToNotionDiary(1, title, content, {}, day)
  \/ hist.runs = << >> /\ mergeDuplicatesScan
  \/ mergeDuplicatesUpdate
  \/ mergeDuplicatesArchive
  \/ mergeDuplicatesReturn

SpecMaster == Init /\ [][NextMaster]_vars

\* the bodies with text, in their order, each followed by one blank line
\* when another follows
RECURSIVE WithBlankLines(_)
WithBlankLines(bodies) ==
  IF bodies = << >> THEN << >>
  ELSE IF Trim(Head(bodies)) = << >> THEN WithBlankLines(Tail(bodies))
  ELSE IF WithBlankLines(Tail(bodies)) = << >> THEN Head(bodies)
  ELSE Head(bodies) \o <<NL, NL>> \o WithBlankLines(Tail(bodies))

\* C38: for a title group of more than one page, the page that
\* mergeDuplicates updates as the master has the greatest date of the group,
\* and the content written to it is its own content followed by the contents
\* of the other pages from the newest to the oldest, bodies without text
\* left out, with one blank line between two bodies.
C38_MasterIsNewestAndHoldsAllBodies ==
  [][(dd.pc = "loop" /\ dd.d = 0 /\ dd'.pc = "loop" /\ dd'.d = 2) =>
       LET group == dd.groups[dd.g]
           m == group[1].pageId
           others == {i \in LiveOf(dd.pre) : dd.pre[i].title = dd.pre[m].title} \ {m}
       IN /\ Len(group) > 1
          /\ \A i \in others : DatePart(dd.pre[m].date) >= DatePart(dd.pre[i].date)
          /\ \A k \in 2..(Len(group) - 1) :
               DatePart(dd.pre[group[k].pageId].date)
                 >= DatePart(dd.pre[group[k + 1].pageId].date)
          /\ {group[k].pageId : k \in 2..Len(group)} = others
          /\ pages'[m].content
               = WithBlankLines([k \in 1..Len(group) |-> dd.pre[group[k].pageId].content])]_vars

\* the master, newer than the other page of its group, was given the other
\* page's body after its own
C38_Witness ==
  /\ dd.pc = "loop"
  /\ dd.d = 2
  /\ LET group == dd.groups[dd.g]
     IN /\ group[1].date > group[2].date
        /\ group[1].content # group[2].content
        /\ Trim(group[2].content) # << >>
        /\ pages[group[1].pageId].content
             = group[1].content \o <<NL, NL>> \o group[2].content

\* --------------------------------------------- properties of the counts
\* the titles that more than one page of a scan carries
TitlesWithDuplicates(groups, store) ==
  {t \in LiveTitles(store) :
     Cardinality({i \in ScannedIds(groups) : store[i].title = t}) > 1}

\* C39: when mergeDuplicates returns, mergedCount is the number of titles
\* that more than one page of the scan carried, and deletedCount is the
\* number of pages that the run archived, which is the number of pages of
\* those titles less one for each title.
C39_CountsMatchTheRun ==
  \A k \in Runs : hist.runs[k].outcome = "ok" =>
    LET run == hist.runs[k]
        titles == TitlesWithDuplicates(run.groups, run.pre)
        members == {i \in ScannedIds(run.groups) : run.pre[i].title \in titles}
    IN /\ run.mergedCount = Cardinality(titles)
       /\ run.deletedCount = Cardinality({i \in LiveOf(run.pre) : run.post[i].archived})
       /\ run.deletedCount = Cardinality(members) - Cardinality(titles)

\* a run has returned after it merged a title and archived a page
C39_Witness ==
  \E k \in Runs :
    /\ hist.runs[k].outcome = "ok"
    /\ hist.runs[k].mergedCount >= 1
    /\ hist.runs[k].deletedCount >= 1
    /\ \E i \in LiveOf(hist.runs[k].pre) : hist.runs[k].post[i].archived

\* ------------------------------------------ properties of the date repair
\* the utility is started again right after a run: meta.text keeps the
\* summary of the run before
fixDiaryDatesRerun ==
  /\ meta.op = "fixed"
  /\ meta.text = << >>
  /\ \E found \in queryAllDiaries :
       meta' = [op |-> "fix-diary-dates", now |-> 0, text |-> <<meta.out>>,
                reply |-> found, out |-> FixCounts(0, 0, 0)]
  /\ UNCHANGED <<pages, recs, procs, dd, hist>>

\* SpecRepair: pages are saved under the canonical title of a day, with the
\* date of that day or with a date that does not parse, then the date-repair
\* utility is run, and run again right after
NextRepair ==
  \/ /\ meta.op = "none"
     /\ \E tday \in Days, day \in {0} \cup Days :
          /\ day \in {0, tday}
          /\ InOrder(CanonicalTitle(tday), <<"a">>, {}, formatDateAsJST(InputDate(day)))
          /\ saveToNotionDiary(1, CanonicalTitle(tday), <<"a">>, {}, day)
  \/ fixDiaryDatesQuery
  \/ fixDiaryDatesPage
  \/ fixDiaryDatesPageFails
  \/ fixDiaryDatesEnd
  \/ fixDiaryDatesRerun

SpecRepair == Init /\ [][NextRepair]_vars

\* C40: a turn of the utility's loop that ends without a store error leaves
\* its page with the date written in its title; the utility changes nothing
\* of a page but its date; and a run that follows a run without a store
\* error, with no write in between, updates no page.
C40_RepairIsCompleteAndIdempotent ==
  [][/\ (meta.op = "fix-diary-dates" /\ meta'.reply # meta.reply
           /\ meta'.out.errorCount = meta.out.errorCount) =>
          \A e \in meta.reply \ meta'.reply :
            pages'[e.pageId].date = FixedDate(pages'[e.pageId].title)
     /\ meta.op = "fix-diary-dates" =>
          /\ Len(pages') = Len(pages)
          /\ \A i \in PageIds :
               /\ pages'[i].title = pages[i].title
               /\ pages'[i].content = pages[i].content
               /\ pages'[i].tags = pages[i].tags
               /\ pages'[i].archived = pages[i].archived
     /\ (/\ meta'.op \in {"fix-diary-dates", "fixed"}
         /\ meta'.text # << >>
         /\ IF meta'.text # << >> THEN meta'.text[1].errorCount = 0 ELSE FALSE) =>
          meta'.out.updatedCount = 0]_vars

====
